---- MODULE Spec2Model ----
(***************************************************************************)
(* Constraint-and-substitution engine of wod-assistant.                    *)
(*                                                                         *)
(*   checkMovement      src/scaling/constraint-engine.ts                   *)
(*   findSubstitution   src/scaling/substitution.ts                        *)
(*                                                                         *)
(* Every function of the engine is pure and synchronous, so each one is an *)
(* operator and each specification draws the arguments of a call in Init   *)
(* and applies the function in one action.                                 *)
(*                                                                         *)
(* Representation.  A TypeScript array is a sequence.  A value that may be *)
(* null / undefined is a sequence of length 0 (absent) or 1 (present).     *)
(* A message string built from a template is a record of the template's    *)
(* text, the values interpolated into it and, for the load cap, the        *)
(* percentage.  loadScale is kept in hundredths (0.7 is 70, 1 is 100).     *)
(***************************************************************************)
EXTENDS Integers, Sequences, FiniteSets, TLC

VARIABLES
    catalog,      \* the movement library: sequence of Movement, iteration order
    movement,     \* argument: the movement under evaluation
    constraints,  \* argument: MovementConstraint | null
    equipment,    \* argument: EquipmentInventory (a set of equipment kinds)
    pc,           \* "call" before the function ran, then the name of the call
    checkResult,  \* MovementCheck returned by checkMovement
    subResult,    \* SubstitutionResult returned by findSubstitution
    impediments,  \* argument: Impediment[] of mergeConstraints
    movements,    \* argument: Movement[] of filterAllowedMovements
    targetTier,   \* argument: DifficultyTier of the tier scaler
    workout,      \* argument: Workout of scaleWorkoutToTier
    mergeResult,  \* MovementConstraint | null returned by mergeConstraints
    filterResult, \* Movement[] returned by filterAllowedMovements
    tierResult,   \* Movement returned by findTieredMovement (absent before the call)
    scaleResult,  \* ScaledWorkout returned by scaleWorkoutToTier
    tiersResult,  \* ScaledWorkout[] returned by generateAllScalingTiers
    mapResult,    \* SubstitutionResult[] returned by scaleWorkoutMovements
    affectedRegions, \* argument: BodyRegion[] of buildInjuryConstraints
    severity,     \* argument: ImpedimentSeverity of buildInjuryConstraints
    prStore,      \* rows of the personal_records table, in insertion order
    prResult      \* PersonalRecord[] returned by the last detectAndSavePRs

\* the arguments of the calls; no call changes them
arguments ==
    <<catalog, movement, constraints, equipment, impediments, movements, targetTier, workout>>

\* state of the operations added after the tier scaler
laterState == <<tiersResult, mapResult, affectedRegions, severity, prStore, prResult>>

vars == <<arguments, pc, checkResult, subResult, mergeResult, filterResult, tierResult,
          scaleResult, laterState>>

----------------------------------------------------------------------------
(* Optional values *)

None == <<>>

Some(x) == <<x>>

IsSome(o) == Len(o) > 0

Get(o) == o[1]

(* Array helpers *)

Includes(arr, x) == \E i \in DOMAIN arr : arr[i] = x

ToSet(arr) == {arr[i] : i \in DOMAIN arr}

----------------------------------------------------------------------------
(* Equipment.None, src/models/equipment.ts *)

EquipmentNone == "none"

(* A message: template text, interpolated list, interpolated percentage *)

Msg(text, args, pct) == [text |-> text, args |-> args, pct |-> pct]

----------------------------------------------------------------------------
(* mergeConstraints, constraint-engine.ts *)

\* [...new Set(arr)]: the distinct elements in order of first occurrence
Distinct(arr) ==
    LET first(i) == \A j \in 1..(i - 1) : arr[j] # arr[i]
        RECURSIVE keep(_)
        keep(i) == IF i > Len(arr) THEN <<>>
                   ELSE (IF first(i) THEN <<arr[i]>> ELSE <<>>) \o keep(i + 1)
    IN  keep(1)

RECURSIVE Flat(_)
Flat(arrs) == IF arrs = <<>> THEN <<>> ELSE Head(arrs) \o Flat(Tail(arrs))

\* Math.min over a non-empty array
Min(arr) == CHOOSE v \in ToSet(arr) : \A w \in ToSet(arr) : v <= w

\* variant: an absent cap counts as the full load of 100 percent
getMinLoadPercentDefault(cs) ==
    LET caps == [i \in DOMAIN cs |->
                   IF IsSome(cs[i].maxLoadPercent) THEN Get(cs[i].maxLoadPercent) ELSE 100]
    IN  IF Len(caps) = 0 THEN None ELSE Some(Min(caps))

\* variant: the first cap given wins
getMinLoadPercentFirst(cs) ==
    LET caps == Flat([i \in DOMAIN cs |-> cs[i].maxLoadPercent])
    IN  IF Len(caps) = 0 THEN None ELSE Some(Head(caps))

\* variant: the highest cap given wins
getMinLoadPercentMax(cs) ==
    LET caps == Flat([i \in DOMAIN cs |-> cs[i].maxLoadPercent])
    IN  IF Len(caps) = 0 THEN None
        ELSE Some(CHOOSE v \in ToSet(caps) : \A w \in ToSet(caps) : v >= w)

getMinLoadPercent(cs) ==
    LET caps == Flat([i \in DOMAIN cs |-> cs[i].maxLoadPercent])
    IN  IF Len(caps) = 0 THEN None ELSE Some(Min(caps))

mergeConstraints(imps) ==
    IF Len(imps) = 0 THEN None
    ELSE LET allConstraints == [i \in DOMAIN imps |-> imps[i].constraints]
             every(permission) ==
                 \A i \in DOMAIN allConstraints : allConstraints[i][permission]
         IN  Some([avoidRegions |->
                       Distinct(Flat([i \in DOMAIN imps |-> allConstraints[i].avoidRegions])),
                   avoidTags |->
                       Distinct(Flat([i \in DOMAIN imps |-> allConstraints[i].avoidTags])),
                   allowHighImpact |-> every("allowHighImpact"),
                   allowOverhead |-> every("allowOverhead"),
                   allowInversion |-> every("allowInversion"),
                   allowProne |-> every("allowProne"),
                   allowKipping |-> every("allowKipping"),
                   allowHeavyAxialLoad |-> every("allowHeavyAxialLoad"),
                   maxLoadPercent |-> getMinLoadPercent(allConstraints)])

----------------------------------------------------------------------------
(* checkMovement, constraint-engine.ts *)

\* variant: the sentinel kind is looked up in the inventory like any other
EquipmentReasonsNoSentinel(m, inv) ==
    LET missing(req) == req \notin inv
        lacking == SelectSeq(m.equipment, missing)
    IN  [i \in 1..Len(lacking) |-> Msg("Missing equipment", <<lacking[i]>>, 0)]

\* for (const req of movement.equipment) if (req !== None && !equipment.has(req)) push
EquipmentReasons(m, inv) ==
    LET missing(req) == req # EquipmentNone /\ req \notin inv
        lacking == SelectSeq(m.equipment, missing)
    IN  [i \in 1..Len(lacking) |-> Msg("Missing equipment", <<lacking[i]>>, 0)]

PrimaryHits(m, c) ==
    LET avoided(r) == Includes(c.avoidRegions, r)
    IN  SelectSeq(m.primaryRegions, avoided)

SecondaryHits(m, c) ==
    LET avoided(r) == Includes(c.avoidRegions, r)
    IN  SelectSeq(m.secondaryRegions, avoided)

HitRegions(m, c) ==
    LET avoided(r) == Includes(c.avoidRegions, r)
    IN  SelectSeq(m.primaryRegions \o m.secondaryRegions, avoided)

\* variant: any hit region blocks, primary or secondary
RegionReasonsAnyHit(m, c) ==
    IF Len(HitRegions(m, c)) > 0
    THEN <<Msg("Stresses protected region(s)", HitRegions(m, c), 0)>>
    ELSE <<>>

RegionReasons(m, c) ==
    IF Len(HitRegions(m, c)) > 0 /\ Len(PrimaryHits(m, c)) > 0
    THEN <<Msg("Stresses protected region(s)", PrimaryHits(m, c), 0)>>
    ELSE <<>>

RegionWarnings(m, c) ==
    IF Len(HitRegions(m, c)) > 0 /\ Len(SecondaryHits(m, c)) > 0
    THEN <<Msg("Secondarily stresses protected region(s)", SecondaryHits(m, c), 0)>>
    ELSE <<>>

\* for (const avoidTag of constraints.avoidTags) if (movementTags.has(avoidTag)) push
AvoidTagReasons(m, c) ==
    LET carried(t) == t \in ToSet(m.tags)
        hit == SelectSeq(c.avoidTags, carried)
    IN  [i \in 1..Len(hit) |-> Msg("Tagged as restricted", <<hit[i]>>, 0)]

PropertyReason(m, permitted, tag, text) ==
    IF ~permitted /\ tag \in ToSet(m.tags) THEN <<Msg(text, <<>>, 0)>> ELSE <<>>

\* variant: the prone and kipping permissions test each other's tag
PropertyReasonsSwapped(m, c) ==
       PropertyReason(m, c.allowHighImpact, "high_impact", "High-impact movements restricted")
    \o PropertyReason(m, c.allowOverhead, "overhead", "Overhead movements restricted")
    \o PropertyReason(m, c.allowInversion, "inverted", "Inverted positions restricted")
    \o PropertyReason(m, c.allowProne, "kipping", "Prone positions restricted")
    \o PropertyReason(m, c.allowKipping, "prone", "Kipping movements restricted")
    \o PropertyReason(m, c.allowHeavyAxialLoad, "axial_load", "Heavy axial loading restricted")

PropertyReasons(m, c) ==
       PropertyReason(m, c.allowHighImpact, "high_impact", "High-impact movements restricted")
    \o PropertyReason(m, c.allowOverhead, "overhead", "Overhead movements restricted")
    \o PropertyReason(m, c.allowInversion, "inverted", "Inverted positions restricted")
    \o PropertyReason(m, c.allowProne, "prone", "Prone positions restricted")
    \o PropertyReason(m, c.allowKipping, "kipping", "Kipping movements restricted")
    \o PropertyReason(m, c.allowHeavyAxialLoad, "axial_load", "Heavy axial loading restricted")

LoadCapReasons(m, c) ==
    IF IsSome(c.maxLoadPercent) /\ Get(c.maxLoadPercent) = 0 /\ m.loadType = "weighted"
    THEN <<Msg("All weighted loading restricted", <<>>, 0)>>
    ELSE <<>>

\* variant: a positive cap is reported whatever the movement's load type
LoadCapWarningsAnyLoad(m, c) ==
    IF IsSome(c.maxLoadPercent) /\ Get(c.maxLoadPercent) > 0
    THEN <<Msg("Load capped", <<>>, Get(c.maxLoadPercent))>>
    ELSE <<>>

LoadCapWarnings(m, c) ==
    IF    IsSome(c.maxLoadPercent)
       /\ ~(Get(c.maxLoadPercent) = 0 /\ m.loadType = "weighted")
       /\ Get(c.maxLoadPercent) > 0 /\ m.loadType = "weighted"
    THEN <<Msg("Load capped", <<>>, Get(c.maxLoadPercent))>>
    ELSE <<>>

\* reasons, in the order the gates push them; only the equipment gate runs
\* when the constraint is absent (early return)
CheckReasons(m, con, inv) ==
    IF ~IsSome(con)
    THEN EquipmentReasons(m, inv)
    ELSE    EquipmentReasons(m, inv)
         \o RegionReasons(m, Get(con))
         \o AvoidTagReasons(m, Get(con))
         \o PropertyReasons(m, Get(con))
         \o LoadCapReasons(m, Get(con))

CheckWarnings(m, con) ==
    IF ~IsSome(con)
    THEN <<>>
    ELSE RegionWarnings(m, Get(con)) \o LoadCapWarnings(m, Get(con))

\* variant: the early return reports an unrestricted cap of 100
CheckMaxLoadPercentDefault(con) ==
    IF ~IsSome(con) THEN Some(100) ELSE Get(con).maxLoadPercent

\* the early return has no maxLoadPercent key; the full return copies the cap
CheckMaxLoadPercent(con) ==
    IF ~IsSome(con) THEN None ELSE Get(con).maxLoadPercent

\* variant: a warning also withdraws the permission
checkMovementStrict(m, con, inv) ==
    LET reasons == CheckReasons(m, con, inv)
        warnings == CheckWarnings(m, con)
    IN  [allowed |-> Len(reasons) = 0 /\ Len(warnings) = 0,
         reasons |-> reasons,
         maxLoadPercent |-> CheckMaxLoadPercent(con),
         warnings |-> warnings]

checkMovement(m, con, inv) ==
    LET reasons == CheckReasons(m, con, inv)
        warnings == CheckWarnings(m, con)
    IN  [allowed |-> Len(reasons) = 0,
         reasons |-> reasons,
         maxLoadPercent |-> CheckMaxLoadPercent(con),
         warnings |-> warnings]

----------------------------------------------------------------------------
(* filterAllowedMovements, constraint-engine.ts *)

\* variant: a movement listed twice is kept once
filterAllowedMovementsOnce(ms, con, inv) ==
    LET allowed(m) == checkMovement(m, con, inv).allowed
    IN  Distinct(SelectSeq(ms, allowed))

filterAllowedMovements(ms, con, inv) ==
    LET allowed(m) == checkMovement(m, con, inv).allowed
    IN  SelectSeq(ms, allowed)

----------------------------------------------------------------------------
(* The movement library consulted by the substitution search.             *)
(* catalog is its content in iteration order; identifiers are unique.     *)

\* lookup by identifier: the movement, or undefined
getMovement(id) ==
    IF \E i \in DOMAIN catalog : catalog[i].id = id
    THEN Some(catalog[CHOOSE i \in DOMAIN catalog : catalog[i].id = id])
    ELSE None

\* enumeration of all movements, in a stable order
getAllMovements == catalog

----------------------------------------------------------------------------
(* findSubstitution, substitution.ts *)

\* Array.prototype.indexOf: 0-based position of the first match, or -1
IndexOf(arr, x) ==
    IF Includes(arr, x)
    THEN (CHOOSE i \in DOMAIN arr : arr[i] = x /\ \A j \in 1..(i - 1) : arr[j] # x) - 1
    ELSE -1

DIFFICULTY_ORDER == <<"beginner", "intermediate", "advanced", "rx", "rx_plus">>

\* check.maxLoadPercent ? check.maxLoadPercent / 100 : 1, in hundredths;
\* undefined and 0 are both falsy
LoadScale(check) ==
    IF IsSome(check.maxLoadPercent) /\ Get(check.maxLoadPercent) # 0
    THEN Get(check.maxLoadPercent)
    ELSE 100

\* candidate.muscleGroups.filter((g) => originalGroups.has(g)).length
SharedGroups(candidate, original) ==
    LET shared(g) == g \in ToSet(original.muscleGroups)
    IN  Len(SelectSeq(candidate.muscleGroups, shared))

CandidateScore(candidate, original) ==
    LET candidateDiffIdx == IndexOf(DIFFICULTY_ORDER, candidate.difficulty)
        originalDiffIdx == IndexOf(DIFFICULTY_ORDER, original.difficulty)
        atOrBelowDifficulty == IF candidateDiffIdx <= originalDiffIdx THEN 1 ELSE 0
        sameModality == IF candidate.modality = original.modality THEN 1 ELSE 0
    IN  SharedGroups(candidate, original) * 10 + atOrBelowDifficulty * 5 + sameModality

\* variant: the candidate is not checked against constraint and inventory
IsBroadCandidateUnchecked(candidate, original, con, inv) ==
    /\ candidate.id \notin ({original.id} \cup ToSet(original.substitutions))
    /\ SharedGroups(candidate, original) # 0

\* variant: a candidate sharing no muscle group is kept
IsBroadCandidateAnyGroup(candidate, original, con, inv) ==
    /\ candidate.id \notin ({original.id} \cup ToSet(original.substitutions))
    /\ checkMovement(candidate, con, inv).allowed

\* the loop body's three "continue" tests
IsBroadCandidate(candidate, original, con, inv) ==
    /\ candidate.id \notin ({original.id} \cup ToSet(original.substitutions))
    /\ SharedGroups(candidate, original) # 0
    /\ checkMovement(candidate, con, inv).allowed

\* candidates pushed while iterating getAllMovements()
BroadCandidates(original, con, inv) ==
    LET keep(candidate) == IsBroadCandidate(candidate, original, con, inv)
        kept == SelectSeq(getAllMovements, keep)
    IN  [i \in 1..Len(kept) |->
            [movement |-> kept[i], score |-> CandidateScore(kept[i], original)]]

\* variant: x goes in front of the elements with its own score, so the last
\* of equally scored candidates comes first
RECURSIVE InsertByScoreUnstable(_, _)
InsertByScoreUnstable(sorted, x) ==
    IF sorted = <<>> THEN <<x>>
    ELSE IF Head(sorted).score > x.score
         THEN <<Head(sorted)>> \o InsertByScoreUnstable(Tail(sorted), x)
         ELSE <<x>> \o sorted

\* candidates.sort((a, b) => b.score - a.score): a stable sort, descending.
\* x goes behind every element whose score is not lower than its own.
RECURSIVE InsertByScore(_, _)
InsertByScore(sorted, x) ==
    IF sorted = <<>> THEN <<x>>
    ELSE IF Head(sorted).score >= x.score
         THEN <<Head(sorted)>> \o InsertByScore(Tail(sorted), x)
         ELSE <<x>> \o sorted

RECURSIVE SortByScoreDesc(_)
SortByScoreDesc(candidates) ==
    IF candidates = <<>> THEN <<>>
    ELSE InsertByScore(SortByScoreDesc(SubSeq(candidates, 1, Len(candidates) - 1)),
                       candidates[Len(candidates)])

findBroadSubstitution(original, con, inv) ==
    LET candidates == BroadCandidates(original, con, inv)
    IN  IF Len(candidates) = 0
        THEN None
        ELSE Some(SortByScoreDesc(candidates)[1].movement)

\* variant: the last entry from position i on that resolves and is allowed
RECURSIVE ChainSubstitutionLast(_, _, _, _)
ChainSubstitutionLast(subs, i, con, inv) ==
    IF i > Len(subs) THEN None
    ELSE LET candidate == getMovement(subs[i])
             later == ChainSubstitutionLast(subs, i + 1, con, inv)
         IN  IF IsSome(later) THEN later
             ELSE IF IsSome(candidate) /\ checkMovement(Get(candidate), con, inv).allowed
                  THEN candidate
                  ELSE None

\* for (const subId of movement.substitutions): the first entry from position
\* i on that resolves and is allowed
RECURSIVE ChainSubstitution(_, _, _, _)
ChainSubstitution(subs, i, con, inv) ==
    IF i > Len(subs) THEN None
    ELSE LET candidate == getMovement(subs[i])
         IN  IF IsSome(candidate) /\ checkMovement(Get(candidate), con, inv).allowed
             THEN candidate
             ELSE ChainSubstitution(subs, i + 1, con, inv)

FallbackWarning ==
    Msg("Substituted via muscle-group fallback (not a direct substitution)", <<>>, 0)

\* variant: the fallback result carries the candidate's warnings only
BroadWarningsPlain(broadCheck) == broadCheck.warnings

\* [...broadCheck.warnings, "Substituted via muscle-group fallback ..."]
BroadWarnings(broadCheck) == broadCheck.warnings \o <<FallbackWarning>>

findSubstitution(m, con, inv) ==
    LET originalCheck == checkMovement(m, con, inv)
        chainMatch == ChainSubstitution(m.substitutions, 1, con, inv)
        candidateCheck == checkMovement(Get(chainMatch), con, inv)
        broadMatch == findBroadSubstitution(m, con, inv)
        broadCheck == checkMovement(Get(broadMatch), con, inv)
    IN  IF originalCheck.allowed
        THEN [original |-> m,
              replacement |-> Some(m),
              originalReasons |-> <<>>,
              replacementWarnings |-> originalCheck.warnings,
              loadScale |-> LoadScale(originalCheck)]
        ELSE IF IsSome(chainMatch)
        THEN [original |-> m,
              replacement |-> chainMatch,
              originalReasons |-> originalCheck.reasons,
              replacementWarnings |-> candidateCheck.warnings,
              loadScale |-> LoadScale(candidateCheck)]
        ELSE IF IsSome(broadMatch)
        THEN [original |-> m,
              replacement |-> broadMatch,
              originalReasons |-> originalCheck.reasons,
              replacementWarnings |-> BroadWarnings(broadCheck),
              loadScale |-> LoadScale(broadCheck)]
        ELSE [original |-> m,
              replacement |-> None,
              originalReasons |-> originalCheck.reasons,
              replacementWarnings |-> <<>>,
              loadScale |-> 0]

\* variant: a movement without a replacement is left out of the result
scaleWorkoutMovementsFound(ms, con, inv) ==
    LET found(r) == IsSome(r.replacement)
    IN  SelectSeq([i \in DOMAIN ms |-> findSubstitution(ms[i], con, inv)], found)

\* movements.map((m) => findSubstitution(m, constraints, equipment))
scaleWorkoutMovements(ms, con, inv) ==
    [i \in DOMAIN ms |-> findSubstitution(ms[i], con, inv)]

----------------------------------------------------------------------------
(* findTieredMovement, scaling-tiers.ts *)

TIER_ORDER == <<"beginner", "intermediate", "advanced", "rx", "rx_plus">>

tierIndex(tier) == IndexOf(TIER_ORDER, tier)

\* variant: the last such entry from position i on
RECURSIVE TieredChainMovementLast(_, _, _, _)
TieredChainMovementLast(subs, i, targetIdx, inv) ==
    IF i > Len(subs) THEN None
    ELSE LET candidate == getMovement(subs[i])
             later == TieredChainMovementLast(subs, i + 1, targetIdx, inv)
         IN  IF IsSome(later) THEN later
             ELSE IF /\ IsSome(candidate)
                     /\ checkMovement(Get(candidate), None, inv).allowed
                     /\ tierIndex(Get(candidate).difficulty) <= targetIdx
                  THEN candidate
                  ELSE None

\* for (const subId of movement.substitutions): the first entry from position
\* i on that resolves, passes the equipment check and is at or below the
\* target tier
RECURSIVE TieredChainMovement(_, _, _, _)
TieredChainMovement(subs, i, targetIdx, inv) ==
    IF i > Len(subs) THEN None
    ELSE LET candidate == getMovement(subs[i])
         IN  IF /\ IsSome(candidate)
                /\ checkMovement(Get(candidate), None, inv).allowed
                /\ tierIndex(Get(candidate).difficulty) <= targetIdx
             THEN candidate
             ELSE TieredChainMovement(subs, i + 1, targetIdx, inv)

\* variant: a candidate above the target tier is kept
IsTieredCandidateAnyTier(candidate, m, targetIdx, inv) ==
    /\ candidate.id # m.id
    /\ checkMovement(candidate, None, inv).allowed
    /\ SharedGroups(candidate, m) # 0

\* the broad loop's four "continue" tests
IsTieredCandidate(candidate, m, targetIdx, inv) ==
    /\ candidate.id # m.id
    /\ checkMovement(candidate, None, inv).allowed
    /\ ~(tierIndex(candidate.difficulty) > targetIdx)
    /\ SharedGroups(candidate, m) # 0

\* variant: the weights of muscle groups and modality are exchanged
TieredScoreModalityFirst(candidate, m) ==
    LET sameModality == IF candidate.modality = m.modality THEN 1 ELSE 0
    IN  SharedGroups(candidate, m) + sameModality * 10

TieredScore(candidate, m) ==
    LET sameModality == IF candidate.modality = m.modality THEN 1 ELSE 0
    IN  SharedGroups(candidate, m) * 10 + sameModality

\* candidates pushed while iterating getAllMovements()
TieredCandidates(m, targetIdx, inv) ==
    LET keep(candidate) == IsTieredCandidate(candidate, m, targetIdx, inv)
        kept == SelectSeq(getAllMovements, keep)
    IN  [i \in 1..Len(kept) |-> [movement |-> kept[i], score |-> TieredScore(kept[i], m)]]

\* variant: the search runs even for a movement at or below the target tier
findTieredMovementAlwaysSearch(m, tier, inv) ==
    LET targetIdx == tierIndex(tier)
        chainMatch == TieredChainMovement(m.substitutions, 1, targetIdx, inv)
        candidates == TieredCandidates(m, targetIdx, inv)
    IN  IF IsSome(chainMatch) THEN Get(chainMatch)
        ELSE IF Len(candidates) > 0 THEN SortByScoreDesc(candidates)[1].movement
        ELSE m

findTieredMovement(m, tier, inv) ==
    LET targetIdx == tierIndex(tier)
        movementIdx == tierIndex(m.difficulty)
        chainMatch == TieredChainMovement(m.substitutions, 1, targetIdx, inv)
        candidates == TieredCandidates(m, targetIdx, inv)
    IN  IF movementIdx <= targetIdx THEN m
        ELSE IF IsSome(chainMatch) THEN Get(chainMatch)
        ELSE IF Len(candidates) > 0 THEN SortByScoreDesc(candidates)[1].movement
        ELSE m

----------------------------------------------------------------------------
(* scalePrescription and scaleWorkoutToTier, scaling-tiers.ts.             *)
(* Scale factors are held in hundredths. Loads are whole numbers; rep      *)
(* counts are held in halves, so that a count below one can be given.      *)

TIER_LOAD_SCALE ==
    [beginner |-> 45, intermediate |-> 65, advanced |-> 85, rx |-> 100, rx_plus |-> 110]

TIER_REP_SCALE ==
    [beginner |-> 60, intermediate |-> 80, advanced |-> 100, rx |-> 100, rx_plus |-> 120]

\* variant: the fraction is cut off
MathTrunc(p, q) == p \div q

\* Math.round of the quotient p / q, q > 0: the nearest integer, a tie going up
MathRound(p, q) == (2 * p + q) \div (2 * q)

MathMax(a, b) == IF a >= b THEN a ELSE b

\* Math.round(prescription.load * loadScale)
ScaledLoad(load, loadScale) == MathRound(load * loadScale, 100)

\* variant: the rounded count is not raised to 1
ScaledRepsUnclamped(reps, repScale) == 2 * MathRound(reps * repScale, 200)

\* Math.max(1, Math.round(prescription.reps * repScale)), in halves
ScaledReps(reps, repScale) == 2 * MathMax(1, MathRound(reps * repScale, 200))

\* variant: a quantity of 0 is dropped
PassThroughTruthy(v) == IF v # None /\ Get(v) # 0 THEN v ELSE None

\* if (prescription.x !== undefined) scaled.x = prescription.x
PassThrough(v) == IF v # None THEN v ELSE None

MakePrescription(movementId, m, reps, load, distance, duration, calories, notes) ==
    [movementId |-> movementId, movement |-> m, reps |-> reps, load |-> load,
     distance |-> distance, duration |-> duration, calories |-> calories, notes |-> notes]

MakeNote(originalId, originalName, changes, tieredMovementId, tieredMovementName) ==
    [originalId |-> originalId, originalName |-> originalName, changes |-> changes,
     tieredMovementId |-> tieredMovementId, tieredMovementName |-> tieredMovementName]

\* prescription.movement ?? getMovement(prescription.movementId)
ResolveMovement(prescription) ==
    IF IsSome(prescription.movement) THEN prescription.movement
    ELSE getMovement(prescription.movementId)

\* the entries pushed to changes, in order
ScalingChanges(prescription, original, tiered, scaled, loadScale, repScale) ==
       (IF tiered.id # original.id
        THEN <<Msg("substituted", <<original.name, tiered.name>>, 0)>>
        ELSE <<Msg("kept", <<>>, 0)>>)
    \o (IF IsSome(prescription.load) /\ loadScale # 100
        THEN <<Msg("load", <<ToString(Get(prescription.load)), ToString(Get(scaled.load))>>, 0)>>
        ELSE <<>>)
    \o (IF IsSome(prescription.reps) /\ Get(prescription.reps) > 0 /\ repScale # 100
        THEN <<Msg("reps", <<ToString(Get(prescription.reps)), ToString(Get(scaled.reps))>>, 0)>>
        ELSE <<>>)

\* variant: the names of the note are left empty
ChangelessUnnamed(prescription) ==
    [prescription |-> prescription,
     note |-> MakeNote(prescription.movementId, "", <<>>, prescription.movementId, "")]

\* if (!original) return { prescription: { ...prescription }, note: ... }
Changeless(prescription) ==
    [prescription |-> prescription,
     note |-> MakeNote(prescription.movementId, prescription.movementId, <<>>,
                       prescription.movementId, prescription.movementId)]

scalePrescription(prescription, tier, inv) ==
    LET resolved == ResolveMovement(prescription)
        original == Get(resolved)
        tiered == findTieredMovement(original, tier, inv)
        loadScale == TIER_LOAD_SCALE[tier]
        repScale == TIER_REP_SCALE[tier]
        scaled ==
            MakePrescription(
                tiered.id,
                Some(tiered),
                IF IsSome(prescription.reps) /\ Get(prescription.reps) > 0
                THEN Some(ScaledReps(Get(prescription.reps), repScale))
                ELSE IF IsSome(prescription.reps) THEN prescription.reps ELSE None,
                IF IsSome(prescription.load)
                THEN Some(ScaledLoad(Get(prescription.load), loadScale))
                ELSE None,
                PassThrough(prescription.distance),
                PassThrough(prescription.duration),
                PassThrough(prescription.calories),
                IF prescription.notes # None THEN prescription.notes ELSE None)
    IN  IF ~IsSome(resolved)
        THEN Changeless(prescription)
        ELSE [prescription |-> scaled,
              note |-> MakeNote(original.id, original.name,
                                ScalingChanges(prescription, original, tiered, scaled,
                                               loadScale, repScale),
                                tiered.id, tiered.name)]

\* variant: the label is the tier's own value
tierLabelRaw(tier) == tier

tierLabel(tier) ==
    CASE tier = "beginner" -> "Beginner"
      [] tier = "intermediate" -> "Intermediate"
      [] tier = "advanced" -> "Advanced"
      [] tier = "rx" -> "Rx"
      [] tier = "rx_plus" -> "Rx+"

scaleWorkoutToTier(w, tier, inv) ==
    LET results == [i \in DOMAIN w.movements |-> scalePrescription(w.movements[i], tier, inv)]
        scaledMovements == [i \in DOMAIN w.movements |-> results[i].prescription]
        scalingNotes == [i \in DOMAIN w.movements |-> results[i].note]
        scaledWorkout == [w EXCEPT !.id = w.id \o "_" \o tier,
                                   !.name = w.name \o " (" \o tierLabel(tier) \o ")",
                                   !.movements = scaledMovements]
    IN  [tier |-> tier, workout |-> scaledWorkout, scalingNotes |-> scalingNotes]

\* variant: the tiers are produced hardest first
generateAllScalingTiersDescending(w, inv) ==
    [k \in DOMAIN TIER_ORDER |->
        scaleWorkoutToTier(w, TIER_ORDER[Len(TIER_ORDER) + 1 - k], inv)]

\* TIER_ORDER.map((tier) => scaleWorkoutToTier(workout, tier, equipment))
generateAllScalingTiers(w, inv) ==
    [k \in DOMAIN TIER_ORDER |-> scaleWorkoutToTier(w, TIER_ORDER[k], inv)]

----------------------------------------------------------------------------
(* Arguments of a checkMovement call *)

EquipmentLists == {<<>>, <<"none">>, <<"barbell">>, <<"barbell", "none">>,
                   <<"barbell", "squat_rack">>}

RegionLists == {<<>>, <<"shoulders">>, <<"core">>, <<"shoulders", "core">>}

TagLists == {<<>>, <<"overhead">>, <<"inverted">>, <<"max_effort">>,
             <<"overhead", "max_effort">>}

LoadTypes == {"bodyweight", "weighted", "distance"}

LoadCaps == {None, Some(0), Some(70)}

Inventories == {{}, {"barbell"}, {"none"}, {"barbell", "squat_rack"}}

MakeMovement(id, eq, prim, sec, groups, mod, diff, tags, lt, subs) ==
    [id |-> id, equipment |-> eq, primaryRegions |-> prim, secondaryRegions |-> sec,
     muscleGroups |-> groups, modality |-> mod, difficulty |-> diff, tags |-> tags,
     loadType |-> lt, substitutions |-> subs]

MakeConstraint(regions, tags, cap, hi, oh, inv, prone, kip, axial) ==
    [avoidRegions |-> regions, avoidTags |-> tags, maxLoadPercent |-> cap,
     allowHighImpact |-> hi, allowOverhead |-> oh, allowInversion |-> inv,
     allowProne |-> prone, allowKipping |-> kip, allowHeavyAxialLoad |-> axial]

CheckMovements ==
    {MakeMovement(1, eq, prim, sec, <<"push">>, "gymnastics", "rx", tags, lt, <<>>) :
        eq \in EquipmentLists, prim \in RegionLists \ {<<>>},
        sec \in {<<>>, <<"shoulders">>, <<"core">>},
        tags \in TagLists, lt \in LoadTypes}

CheckConstraints ==
    {None} \cup
    {Some(MakeConstraint(regions, tags, cap, TRUE, oh, inv, TRUE, TRUE, TRUE)) :
        regions \in {<<>>, <<"shoulders">>, <<"core">>},
        tags \in {<<>>, <<"max_effort">>},
        cap \in LoadCaps, oh \in BOOLEAN, inv \in BOOLEAN}

NoCheck == [allowed |-> FALSE, reasons |-> <<>>, maxLoadPercent |-> None, warnings |-> <<>>]

NoSub == [original |-> None, replacement |-> None, originalReasons |-> <<>>, replacementWarnings |-> <<>>,
          loadScale |-> 0]

\* workout and ScaledWorkout before any call
NoMovement == MakeMovement(0, <<>>, <<>>, <<>>, <<>>, "", "", <<>>, "", <<>>)

MakeWorkout(id, name, prescriptions) ==
    [id |-> id, name |-> name, format |-> "amrap", movements |-> prescriptions,
     timeCap |-> Some(12), rounds |-> None, workInterval |-> None, restInterval |-> None,
     emomMinutes |-> None, scoreType |-> "rounds_and_reps", description |-> None,
     isBenchmark |-> TRUE, estimatedDuration |-> Some(15)]

NoWorkout == MakeWorkout("", "", <<>>)

NoScaled == [tier |-> "rx", workout |-> NoWorkout, scalingNotes |-> <<>>]

\* the arguments and results of the calls a specification does not make
NoMergeCall == impediments = <<>> /\ mergeResult = None

NoFilterCall == movements = <<>> /\ filterResult = <<>>

NoTierCall == targetTier = "rx" /\ tierResult = NoMovement

NoScaleCall ==
    /\ workout = NoWorkout /\ scaleResult = NoScaled
    /\ tiersResult = <<>> /\ mapResult = <<>>
    /\ affectedRegions = <<>> /\ severity = "mild"
    /\ prStore = <<>> /\ prResult = <<>>

InitCheck ==
    /\ catalog = <<>>
    /\ movement \in CheckMovements
    /\ constraints \in CheckConstraints
    /\ equipment \in Inventories
    /\ pc = "call"
    /\ checkResult = NoCheck
    /\ subResult = NoSub
    /\ NoMergeCall /\ NoFilterCall /\ NoTierCall /\ NoScaleCall

CheckMovementCall ==
    /\ pc = "call"
    /\ checkResult' = checkMovement(movement, constraints, equipment)
    /\ pc' = "checkMovement"
    /\ UNCHANGED <<arguments, laterState,
                 subResult, mergeResult, filterResult, tierResult, scaleResult>>

NextCheck == CheckMovementCall

SpecCheck == InitCheck /\ [][NextCheck]_vars

----------------------------------------------------------------------------
(* buildInjuryConstraints, models/equipment.ts *)

\* affectedRegions.every((r) => !joints.includes(r))
SparesAll(affected, joints) == \A i \in DOMAIN affected : affected[i] \notin joints

\* variant: the Severe preset forgets the high-skill tag
buildInjuryConstraintsSevereUntagged(affected, sev) ==
    CASE sev = "mild" ->
            MakeConstraint(<<>>, <<"max_effort">>, Some(80),
                           TRUE, TRUE, TRUE, TRUE, TRUE, TRUE)
      [] sev = "moderate" ->
            MakeConstraint(affected, <<"max_effort", "high_skill">>, Some(50),
                           SparesAll(affected, {"knees", "ankles", "hips", "spine"}),
                           SparesAll(affected, {"shoulders", "elbows", "wrists"}),
                           SparesAll(affected, {"wrists", "shoulders", "neck", "spine"}),
                           ~Includes(affected, "spine"),
                           FALSE,
                           ~Includes(affected, "spine"))
      [] sev = "severe" ->
            MakeConstraint(affected, <<"max_effort", "complex">>, Some(0),
                           FALSE,
                           SparesAll(affected, {"shoulders", "elbows", "wrists"}),
                           FALSE, FALSE, FALSE, FALSE)

\* the preset of each severity; the notes text, which no gate reads, is not kept
buildInjuryConstraints(affected, sev) ==
    CASE sev = "mild" ->
            MakeConstraint(<<>>, <<"max_effort">>, Some(80),
                           TRUE, TRUE, TRUE, TRUE, TRUE, TRUE)
      [] sev = "moderate" ->
            MakeConstraint(affected, <<"max_effort", "high_skill">>, Some(50),
                           SparesAll(affected, {"knees", "ankles", "hips", "spine"}),
                           SparesAll(affected, {"shoulders", "elbows", "wrists"}),
                           SparesAll(affected, {"wrists", "shoulders", "neck", "spine"}),
                           ~Includes(affected, "spine"),
                           FALSE,
                           ~Includes(affected, "spine"))
      [] sev = "severe" ->
            MakeConstraint(affected, <<"max_effort", "high_skill", "complex">>, Some(0),
                           FALSE,
                           SparesAll(affected, {"shoulders", "elbows", "wrists"}),
                           FALSE, FALSE, FALSE, FALSE)

----------------------------------------------------------------------------
(* Arguments of a checkMovement call that exercise the tag gates: a        *)
(* bodyweight movement needing no equipment with any set of tags, against  *)
(* any combination of the six permissions and a few avoid-tag lists.       *)

TagOrder == <<"high_impact", "overhead", "inverted", "prone", "kipping", "axial_load",
              "max_effort">>

TaggedMovements ==
    {MakeMovement(1, <<"none">>, <<"quads">>, <<>>, <<"squat">>, "gymnastics", "rx",
                  LET carried(t) == t \in ts IN SelectSeq(TagOrder, carried),
                  "bodyweight", <<>>) :
        ts \in SUBSET ToSet(TagOrder)}

AvoidTagLists == {<<>>, <<"max_effort">>, <<"overhead">>, <<"max_effort", "kipping">>}

TagConstraints ==
    {Some(MakeConstraint(<<>>, tags, None, hi, oh, inv, prone, kip, axial)) :
        tags \in AvoidTagLists, hi \in BOOLEAN, oh \in BOOLEAN, inv \in BOOLEAN,
        prone \in BOOLEAN, kip \in BOOLEAN, axial \in BOOLEAN}

InitTags ==
    /\ catalog = <<>>
    /\ movement \in TaggedMovements
    /\ constraints \in TagConstraints
    /\ equipment = {}
    /\ pc = "call"
    /\ checkResult = NoCheck
    /\ subResult = NoSub
    /\ NoMergeCall /\ NoFilterCall /\ NoTierCall /\ NoScaleCall

NextTags == CheckMovementCall

SpecTags == InitTags /\ [][NextTags]_vars

----------------------------------------------------------------------------
(* Arguments of a mergeConstraints call: up to MaxImpediments impediments, *)
(* each carrying one of twelve constraints that between them set and      *)
(* clear every permission, overlap in regions and tags, and carry no cap,  *)
(* a cap of 0 or one of two positive caps.                                 *)

MaxImpediments == 3

MakeImpediment(c) == [constraints |-> c]

MergeCaps == {None, Some(0), Some(50), Some(70)}

MergeConstraintPool ==
    UNION {{MakeConstraint(<<>>, <<>>, cap, TRUE, TRUE, TRUE, TRUE, TRUE, TRUE),
            MakeConstraint(<<"shoulders">>, <<"overhead">>, cap,
                           TRUE, FALSE, TRUE, TRUE, FALSE, TRUE),
            MakeConstraint(<<"core", "shoulders">>, <<"overhead", "inverted">>, cap,
                           FALSE, TRUE, FALSE, FALSE, TRUE, FALSE)} : cap \in MergeCaps}

ImpedimentLists ==
    UNION {[1..n -> {MakeImpediment(c) : c \in MergeConstraintPool}] : n \in 0..MaxImpediments}

InitMerge ==
    /\ catalog = <<>>
    /\ movement = NoMovement
    /\ constraints = None
    /\ equipment = {}
    /\ pc = "call"
    /\ checkResult = NoCheck
    /\ subResult = NoSub
    /\ impediments \in ImpedimentLists
    /\ mergeResult = None
    /\ NoFilterCall /\ NoTierCall /\ NoScaleCall

MergeConstraintsCall ==
    /\ pc = "call"
    /\ mergeResult' = mergeConstraints(impediments)
    /\ pc' = "mergeConstraints"
    /\ UNCHANGED <<arguments, laterState,
                 checkResult, subResult, filterResult, tierResult, scaleResult>>

NextMerge == MergeConstraintsCall

SpecMerge == InitMerge /\ [][NextMerge]_vars

----------------------------------------------------------------------------
(* Arguments of a filterAllowedMovements call: a list of up to            *)
(* MaxMovements movements, repeats included, drawn from four that the      *)
(* gates treat differently, against three constraints and two inventories. *)

MaxMovements == 3

FilterMovementPool ==
    {MakeMovement(1, <<"none">>, <<"quads">>, <<>>, <<"squat">>, "gymnastics", "beginner",
                  <<>>, "bodyweight", <<>>),
     MakeMovement(2, <<"barbell">>, <<"quads">>, <<>>, <<"squat">>, "weightlifting", "rx",
                  <<>>, "weighted", <<>>),
     MakeMovement(3, <<"none">>, <<"quads">>, <<>>, <<"push">>, "gymnastics", "rx",
                  <<"overhead">>, "bodyweight", <<>>),
     MakeMovement(4, <<"none">>, <<"shoulders">>, <<>>, <<"push">>, "gymnastics", "advanced",
                  <<>>, "bodyweight", <<>>)}

FilterConstraints ==
    {None,
     Some(MakeConstraint(<<"shoulders">>, <<>>, Some(70), TRUE, FALSE, TRUE, TRUE, TRUE, TRUE)),
     Some(MakeConstraint(<<>>, <<>>, Some(0), TRUE, TRUE, TRUE, TRUE, TRUE, TRUE))}

InitFilter ==
    /\ catalog = <<>>
    /\ movement = NoMovement
    /\ constraints \in FilterConstraints
    /\ equipment \in {{}, {"barbell"}}
    /\ pc = "call"
    /\ checkResult = NoCheck
    /\ subResult = NoSub
    /\ movements \in UNION {[1..n -> FilterMovementPool] : n \in 0..MaxMovements}
    /\ filterResult = <<>>
    /\ NoMergeCall /\ NoTierCall /\ NoScaleCall

FilterAllowedMovementsCall ==
    /\ pc = "call"
    /\ filterResult' = filterAllowedMovements(movements, constraints, equipment)
    /\ pc' = "filterAllowedMovements"
    /\ UNCHANGED <<arguments, laterState,
                 checkResult, subResult, mergeResult, tierResult, scaleResult>>

NextFilter == FilterAllowedMovementsCall

SpecFilter == InitFilter /\ [][NextFilter]_vars

----------------------------------------------------------------------------
(* Arguments of a findSubstitution call: a library of CatalogSize          *)
(* movements, one of them the original, which alone carries an authored    *)
(* chain of at most MaxChainLen distinct identifiers (0 resolves to        *)
(* nothing), and one of four athlete situations.                           *)

CatalogSize == 3

MaxChainLen == 2

\* required equipment and load type of a library movement
Bodyweight == [equipment |-> <<"none">>, loadType |-> "bodyweight"]

Barbell == [equipment |-> <<"barbell">>, loadType |-> "weighted"]

Loadings == {Bodyweight, Barbell}

Grading(difficulty, modality) == [difficulty |-> difficulty, modality |-> modality]

Profile(l, g, mg) == [loading |-> l, grading |-> g, muscleGroups |-> mg]

\* the other movements of the library; the original is advanced gymnastics
\* with the muscle groups push and pull
Profiles ==
    {Profile(Bodyweight, Grading("advanced", "gymnastics"), <<"push">>),
     Profile(Bodyweight, Grading("beginner", "weightlifting"), <<"push">>),
     Profile(Bodyweight, Grading("rx", "gymnastics"), <<"push">>),
     Profile(Bodyweight, Grading("rx", "weightlifting"), <<"pull", "push">>),
     Profile(Bodyweight, Grading("beginner", "gymnastics"), <<"squat">>),
     Profile(Barbell, Grading("beginner", "gymnastics"), <<"pull", "push">>)}

Chains(own) ==
    LET ids == (0..CatalogSize) \ {own}
    IN  {c \in UNION {[1..k -> ids] : k \in 0..MaxChainLen} :
            \A i, j \in DOMAIN c : i # j => c[i] # c[j]}

LibraryMovement(id, p, subs) ==
    MakeMovement(id, p.loading.equipment, <<"quads">>, <<"core">>, p.muscleGroups,
                 p.grading.modality, p.grading.difficulty, <<>>, p.loading.loadType, subs)

OriginalProfile(l) == Profile(l, Grading("advanced", "gymnastics"), <<"push", "pull">>)

Unrestricted == MakeConstraint(<<>>, <<>>, None, TRUE, TRUE, TRUE, TRUE, TRUE, TRUE)

\* constraint and inventory of the athlete
Situations ==
    {[constraints |-> None, equipment |-> {}],
     [constraints |-> Some([Unrestricted EXCEPT !.maxLoadPercent = Some(0)]),
      equipment |-> {"barbell"}],
     [constraints |-> Some([Unrestricted EXCEPT !.maxLoadPercent = Some(70),
                                                !.avoidRegions = <<"core">>]),
      equipment |-> {}],
     [constraints |-> Some([Unrestricted EXCEPT !.maxLoadPercent = Some(70)]),
      equipment |-> {"barbell"}]}

Init ==
    \E own \in 1..CatalogSize, l \in Loadings, sit \in Situations :
      \E subs \in Chains(own), others \in [(1..CatalogSize) \ {own} -> Profiles] :
        /\ catalog = [i \in 1..CatalogSize |->
                         IF i = own
                         THEN LibraryMovement(i, OriginalProfile(l), subs)
                         ELSE LibraryMovement(i, others[i], <<>>)]
        /\ movement = catalog[own]
        /\ constraints = sit.constraints
        /\ equipment = sit.equipment
        /\ pc = "call"
        /\ checkResult = NoCheck
        /\ subResult = NoSub
        /\ NoMergeCall /\ NoFilterCall /\ NoTierCall /\ NoScaleCall

FindSubstitutionCall ==
    /\ pc = "call"
    /\ subResult' = findSubstitution(movement, constraints, equipment)
    /\ pc' = "findSubstitution"
    /\ UNCHANGED <<arguments, laterState,
                 checkResult, mergeResult, filterResult, tierResult, scaleResult>>

Next == FindSubstitutionCall

Spec == Init /\ [][Next]_vars

----------------------------------------------------------------------------
(* Properties of checkMovement, checked under SpecCheck *)

Checked == pc = "checkMovement"

RequiredKinds == ToSet(movement.equipment) \ {EquipmentNone}

ReasonTexts == {checkResult.reasons[i].text : i \in DOMAIN checkResult.reasons}

WarningTexts == {checkResult.warnings[i].text : i \in DOMAIN checkResult.warnings}

AvoidedPrimary ==
    IF IsSome(constraints)
    THEN ToSet(movement.primaryRegions) \cap ToSet(Get(constraints).avoidRegions)
    ELSE {}

AvoidedSecondary ==
    IF IsSome(constraints)
    THEN ToSet(movement.secondaryRegions) \cap ToSet(Get(constraints).avoidRegions)
    ELSE {}

\* C7: checkMovement returns allowed = true exactly when its reasons list is
\* empty, whatever the warnings list holds.
C7_AllowedIffNoReasons ==
    Checked => (checkResult.allowed <=> checkResult.reasons = <<>>)

\* an allowed result that carries a warning
C7_Witness ==
    Checked /\ checkResult.allowed /\ checkResult.warnings # <<>>

\* C8: every required equipment kind other than none that the inventory lacks
\* blocks the movement with a reason naming that kind, constraint present or
\* not; no reason ever names the sentinel none or a kind the inventory holds.
C8_EquipmentGate ==
    Checked =>
        /\ \A e \in RequiredKinds \ equipment :
              /\ ~checkResult.allowed
              /\ \E i \in DOMAIN checkResult.reasons :
                    checkResult.reasons[i] = Msg("Missing equipment", <<e>>, 0)
        /\ \A i \in DOMAIN checkResult.reasons :
              checkResult.reasons[i].text = "Missing equipment" =>
                  /\ checkResult.reasons[i].args[1] # EquipmentNone
                  /\ checkResult.reasons[i].args[1] \notin equipment

\* a movement requiring barbell and none, checked against an inventory with
\* neither, under a present constraint
C8_Witness ==
    /\ Checked
    /\ movement.equipment = <<"barbell", "none">>
    /\ equipment = {}
    /\ IsSome(constraints)
    /\ ~checkResult.allowed

\* C9: with an absent constraint the result is decided by the equipment gate
\* alone: allowed exactly when every required kind other than none is in the
\* inventory, no warnings, no maxLoadPercent.
C9_AbsentConstraintEquipmentOnly ==
    (Checked /\ ~IsSome(constraints)) =>
        /\ checkResult.allowed <=> RequiredKinds \subseteq equipment
        /\ checkResult.warnings = <<>>
        /\ checkResult.maxLoadPercent = None

\* an overhead, weighted movement stressing shoulders is allowed when the
\* constraint is absent and the barbell is available
C9_Witness ==
    /\ Checked
    /\ ~IsSome(constraints)
    /\ movement.equipment = <<"barbell">>
    /\ movement.loadType = "weighted"
    /\ movement.tags = <<"overhead", "max_effort">>
    /\ equipment = {"barbell"}
    /\ checkResult.allowed

\* C10: with a present constraint, an avoided primary region blocks the
\* movement; when only secondary regions are avoided the result carries the
\* secondary-region warning and no region reason.
C10_RegionGate ==
    (Checked /\ IsSome(constraints)) =>
        /\ AvoidedPrimary # {} => ~checkResult.allowed
        /\ (AvoidedPrimary = {} /\ AvoidedSecondary # {}) =>
              /\ "Secondarily stresses protected region(s)" \in WarningTexts
              /\ "Stresses protected region(s)" \notin ReasonTexts

\* a movement hit on a secondary region only, and allowed
C10_Witness ==
    /\ Checked
    /\ AvoidedPrimary = {}
    /\ AvoidedSecondary # {}
    /\ checkResult.allowed

\* permission, the tag it governs and the reason it records
PermissionGates ==
    {<<"allowHighImpact", "high_impact", "High-impact movements restricted">>,
     <<"allowOverhead", "overhead", "Overhead movements restricted">>,
     <<"allowInversion", "inverted", "Inverted positions restricted">>,
     <<"allowProne", "prone", "Prone positions restricted">>,
     <<"allowKipping", "kipping", "Kipping movements restricted">>,
     <<"allowHeavyAxialLoad", "axial_load", "Heavy axial loading restricted">>}

CarriedTags == ToSet(movement.tags)

\* gates of the constraint that the movement's tags close
ClosedGates == {g \in PermissionGates : ~Get(constraints)[g[1]] /\ g[2] \in CarriedTags}

AvoidedTags == CarriedTags \cap ToSet(Get(constraints).avoidTags)

OtherGateTexts ==
    {"Missing equipment", "Stresses protected region(s)", "All weighted loading restricted"}

\* C11 (SpecTags): with a present constraint, a movement carrying an avoided
\* tag, or a tag whose permission is false, is not allowed; a false permission
\* records its reason only for a movement carrying the matching tag, so a
\* movement no tag gate closes is allowed unless another gate blocks it.
C11_TagGates ==
    (Checked /\ IsSome(constraints)) =>
        /\ AvoidedTags # {} => ~checkResult.allowed
        /\ ClosedGates # {} => ~checkResult.allowed
        /\ \A g \in PermissionGates : g[3] \in ReasonTexts <=> g \in ClosedGates
        /\ "Tagged as restricted" \in ReasonTexts <=> AvoidedTags # {}
        /\ (AvoidedTags = {} /\ ClosedGates = {} /\ ReasonTexts \cap OtherGateTexts = {})
               => checkResult.allowed

\* a prone movement stays allowed while kipping and overhead are forbidden
C11_Witness ==
    /\ Checked
    /\ IsSome(constraints)
    /\ movement.tags = <<"prone">>
    /\ ~Get(constraints).allowKipping
    /\ ~Get(constraints).allowOverhead
    /\ Get(constraints).allowProne
    /\ checkResult.allowed

\* C12 (SpecCheck): with a cap and a weighted movement, cap 0 blocks and a
\* positive cap adds a warning, no reason, and is returned as maxLoadPercent;
\* for any other load type the cap adds neither reason nor warning.
C12_LoadCapGate ==
    (Checked /\ IsSome(constraints) /\ IsSome(Get(constraints).maxLoadPercent)) =>
        LET cap == Get(Get(constraints).maxLoadPercent)
        IN  IF movement.loadType = "weighted"
            THEN /\ cap = 0 => ~checkResult.allowed
                 /\ cap > 0 =>
                       /\ Includes(checkResult.warnings, Msg("Load capped", <<>>, cap))
                       /\ "All weighted loading restricted" \notin ReasonTexts
                       /\ checkResult.maxLoadPercent = Some(cap)
            ELSE /\ "All weighted loading restricted" \notin ReasonTexts
                 /\ "Load capped" \notin WarningTexts

\* a weighted movement allowed under a cap of 70, with the cap warning
C12_Witness ==
    /\ Checked
    /\ movement.loadType = "weighted"
    /\ IsSome(constraints)
    /\ Get(constraints).maxLoadPercent = Some(70)
    /\ checkResult.allowed
    /\ checkResult.maxLoadPercent = Some(70)
    /\ "Load capped" \in WarningTexts

----------------------------------------------------------------------------
(* Arguments of a findTieredMovement call: a library of CatalogSize        *)
(* movements, one of them the original, a barbell movement graded          *)
(* intermediate or rx that alone carries an authored chain; the target is  *)
(* the lowest tier, a middle tier or the highest, and the athlete has a    *)
(* barbell or nothing.                                                     *)

TieredProfiles ==
    {Profile(Bodyweight, Grading("beginner", "gymnastics"), <<"push">>),
     Profile(Bodyweight, Grading("beginner", "weightlifting"), <<"pull", "push">>),
     Profile(Bodyweight, Grading("advanced", "gymnastics"), <<"push">>),
     Profile(Barbell, Grading("beginner", "gymnastics"), <<"pull", "push">>),
     Profile(Bodyweight, Grading("beginner", "gymnastics"), <<"squat">>)}

TieredOriginal(difficulty) ==
    Profile(Barbell, Grading(difficulty, "gymnastics"), <<"push", "pull">>)

TargetTiers == {"beginner", "advanced", "rx_plus"}

InitTier ==
    \E own \in 1..CatalogSize, difficulty \in {"intermediate", "rx"},
       tier \in TargetTiers, inv \in {{}, {"barbell"}} :
      \E subs \in Chains(own), others \in [(1..CatalogSize) \ {own} -> TieredProfiles] :
        /\ catalog = [i \in 1..CatalogSize |->
                         IF i = own
                         THEN LibraryMovement(i, TieredOriginal(difficulty), subs)
                         ELSE LibraryMovement(i, others[i], <<>>)]
        /\ movement = catalog[own]
        /\ constraints = None
        /\ equipment = inv
        /\ pc = "call"
        /\ checkResult = NoCheck
        /\ subResult = NoSub
        /\ targetTier = tier
        /\ tierResult = NoMovement
        /\ NoMergeCall /\ NoFilterCall /\ NoScaleCall

FindTieredMovementCall ==
    /\ pc = "call"
    /\ tierResult' = findTieredMovement(movement, targetTier, equipment)
    /\ pc' = "findTieredMovement"
    /\ UNCHANGED <<arguments, laterState,
                 checkResult, subResult, mergeResult, filterResult, scaleResult>>

NextTier == FindTieredMovementCall

SpecTier == InitTier /\ [][NextTier]_vars

----------------------------------------------------------------------------
(* Arguments of a scaleWorkoutToTier call: a library of three squats, and  *)
(* a workout that is empty or opens with a prescription drawn in full      *)
(* (movement reference, load, rep count, pass-through fields), followed by *)
(* prescriptions from a small pool, up to MaxPrescriptions in all. Loads   *)
(* are multiples of five pounds up to MaxLoadPlates plates; rep counts run *)
(* from minus one to MaxHalfReps halves.                                   *)

MaxPrescriptions == 2

MaxLoadPlates == 4

MaxHalfReps == 5

NamedMovement(id, name, eq, groups, mod, diff, lt, subs) ==
    [id |-> id, name |-> name, equipment |-> eq, primaryRegions |-> <<"quads">>,
     secondaryRegions |-> <<"core">>, muscleGroups |-> groups, modality |-> mod,
     difficulty |-> diff, tags |-> <<>>, loadType |-> lt, substitutions |-> subs]

BackSquat ==
    NamedMovement("back-squat", "Back Squat", <<"barbell">>, <<"squat">>, "weightlifting",
                  "rx", "weighted", <<"goblet-squat", "air-squat">>)

GobletSquat ==
    NamedMovement("goblet-squat", "Goblet Squat", <<"kettlebell">>, <<"squat">>,
                  "weightlifting", "intermediate", "weighted", <<"air-squat">>)

AirSquat ==
    NamedMovement("air-squat", "Air Squat", <<"none">>, <<"squat">>, "gymnastics",
                  "beginner", "bodyweight", <<>>)

\* carried by a prescription only; the library does not list it
SandbagClean ==
    NamedMovement("sandbag-clean", "Sandbag Clean", <<"sandbag">>, <<"pull", "squat">>,
                  "weightlifting", "advanced", "weighted", <<>>)

ScaleLibrary == <<BackSquat, GobletSquat, AirSquat>>

\* movementId and movement of a prescription
MovementRefs ==
    {[movementId |-> "back-squat", movement |-> None],
     [movementId |-> "air-squat", movement |-> Some(AirSquat)],
     [movementId |-> "mystery-move", movement |-> None],
     [movementId |-> "sandbag-clean", movement |-> Some(SandbagClean)]}

Loads == {None} \cup {Some(5 * k) : k \in 0..MaxLoadPlates}

RepCounts == {None} \cup {Some(r) : r \in (-2)..MaxHalfReps}

\* distance, duration, calories and notes of a prescription
PassThroughFields ==
    {[distance |-> None, duration |-> None, calories |-> None, notes |-> None],
     [distance |-> Some(400), duration |-> Some(60), calories |-> Some(15),
      notes |-> Some("unbroken")],
     [distance |-> Some(0), duration |-> None, calories |-> Some(0), notes |-> Some("")]}

FirstPrescriptions ==
    {MakePrescription(ref.movementId, ref.movement, reps, load,
                      f.distance, f.duration, f.calories, f.notes) :
        ref \in MovementRefs, reps \in RepCounts, load \in Loads, f \in PassThroughFields}

LaterPrescriptions ==
    {MakePrescription("back-squat", None, Some(10), Some(20), None, None, None, None),
     MakePrescription("mystery-move", None, Some(4), Some(10), None, None, None,
                      Some("each arm")),
     MakePrescription("air-squat", Some(AirSquat), Some(0), None, Some(200), None, None, None)}

Workouts ==
    {MakeWorkout("fran", "Fran", <<>>)} \cup
    {MakeWorkout("fran", "Fran", <<first>> \o later) :
        first \in FirstPrescriptions,
        later \in UNION {[1..n -> LaterPrescriptions] : n \in 0..(MaxPrescriptions - 1)}}

InitScale ==
    /\ catalog = ScaleLibrary
    /\ movement = NoMovement
    /\ constraints = None
    /\ equipment \in {{}, {"kettlebell"}}
    /\ pc = "call"
    /\ checkResult = NoCheck
    /\ subResult = NoSub
    /\ workout \in Workouts
    /\ targetTier \in ToSet(TIER_ORDER)
    /\ tierResult = NoMovement
    /\ scaleResult = NoScaled
    /\ tiersResult = <<>> /\ mapResult = <<>>
    /\ affectedRegions = <<>> /\ severity = "mild"
    /\ prStore = <<>> /\ prResult = <<>>
    /\ NoMergeCall /\ NoFilterCall

ScaleWorkoutToTierCall ==
    /\ pc = "call"
    /\ scaleResult' = scaleWorkoutToTier(workout, targetTier, equipment)
    /\ pc' = "scaleWorkoutToTier"
    /\ UNCHANGED <<arguments, laterState,
                 checkResult, subResult, mergeResult, filterResult, tierResult>>

NextScale == ScaleWorkoutToTierCall

SpecScale == InitScale /\ [][NextScale]_vars

----------------------------------------------------------------------------
(* A generateAllScalingTiers call takes the workouts and inventories of a  *)
(* scaleWorkoutToTier call.                                                *)

InitTiers ==
    /\ catalog = ScaleLibrary
    /\ movement = NoMovement
    /\ constraints = None
    /\ equipment \in {{}, {"kettlebell"}}
    /\ pc = "call"
    /\ checkResult = NoCheck
    /\ subResult = NoSub
    /\ workout \in Workouts
    /\ targetTier = "rx"
    /\ tierResult = NoMovement
    /\ scaleResult = NoScaled
    /\ tiersResult = <<>> /\ mapResult = <<>>
    /\ affectedRegions = <<>> /\ severity = "mild"
    /\ prStore = <<>> /\ prResult = <<>>
    /\ NoMergeCall /\ NoFilterCall

GenerateAllScalingTiersCall ==
    /\ pc = "call"
    /\ tiersResult' = generateAllScalingTiers(workout, equipment)
    /\ pc' = "generateAllScalingTiers"
    /\ UNCHANGED <<arguments, checkResult, subResult, mergeResult, filterResult, tierResult,
                   scaleResult, mapResult, affectedRegions, severity, prStore, prResult>>

NextTiers == GenerateAllScalingTiersCall

SpecTiers == InitTiers /\ [][NextTiers]_vars

----------------------------------------------------------------------------
(* Arguments of a scaleWorkoutMovements call: up to MaxMovements movements *)
(* of a library of four, repeats included, in one of the four athlete      *)
(* situations. The first movement has an authored chain, the fourth shares *)
(* no muscle group with the others.                                        *)

MapLibrary ==
    <<LibraryMovement(1, OriginalProfile(Barbell), <<2, 3>>),
      LibraryMovement(2, Profile(Barbell, Grading("beginner", "gymnastics"),
                                 <<"pull", "push">>), <<>>),
      LibraryMovement(3, Profile(Bodyweight, Grading("rx", "weightlifting"),
                                 <<"pull", "push">>), <<>>),
      LibraryMovement(4, Profile(Barbell, Grading("beginner", "gymnastics"), <<"squat">>),
                      <<>>)>>

InitMap ==
    \E sit \in Situations :
        /\ catalog = MapLibrary
        /\ movement = NoMovement
        /\ constraints = sit.constraints
        /\ equipment = sit.equipment
        /\ pc = "call"
        /\ checkResult = NoCheck
        /\ subResult = NoSub
        /\ movements \in UNION {[1..n -> ToSet(MapLibrary)] : n \in 0..MaxMovements}
        /\ filterResult = <<>>
        /\ mapResult = <<>>
        /\ workout = NoWorkout /\ scaleResult = NoScaled /\ tiersResult = <<>>
        /\ affectedRegions = <<>> /\ severity = "mild"
        /\ prStore = <<>> /\ prResult = <<>>
        /\ NoMergeCall /\ NoTierCall

ScaleWorkoutMovementsCall ==
    /\ pc = "call"
    /\ mapResult' = scaleWorkoutMovements(movements, constraints, equipment)
    /\ pc' = "scaleWorkoutMovements"
    /\ UNCHANGED <<arguments, checkResult, subResult, mergeResult, filterResult, tierResult,
                   scaleResult, tiersResult, affectedRegions, severity, prStore, prResult>>

NextMap == ScaleWorkoutMovementsCall

SpecMap == InitMap /\ [][NextMap]_vars

----------------------------------------------------------------------------
(* Merging an athlete's limitations and checking a movement against the    *)
(* result: up to MaxImpediments limitations out of six, one of six         *)
(* movements that between them meet every gate, with or without a barbell. *)

RestrictingConstraints ==
    {MakeConstraint(<<>>, <<>>, None, TRUE, TRUE, TRUE, TRUE, TRUE, TRUE),
     MakeConstraint(<<>>, <<>>, Some(70), TRUE, TRUE, TRUE, TRUE, TRUE, TRUE),
     MakeConstraint(<<>>, <<"max_effort">>, Some(0), TRUE, TRUE, TRUE, TRUE, TRUE, TRUE),
     MakeConstraint(<<"shoulders">>, <<"overhead">>, None,
                    TRUE, FALSE, TRUE, TRUE, FALSE, TRUE),
     MakeConstraint(<<"core", "shoulders">>, <<>>, Some(50),
                    FALSE, TRUE, FALSE, FALSE, TRUE, FALSE),
     MakeConstraint(<<"core">>, <<"inverted">>, None, TRUE, TRUE, TRUE, TRUE, TRUE, TRUE)}

RestrictedMovements ==
    {MakeMovement(1, <<"none">>, <<"quads">>, <<>>, <<"squat">>, "gymnastics", "beginner",
                  <<>>, "bodyweight", <<>>),
     MakeMovement(2, <<"barbell">>, <<"quads">>, <<>>, <<"squat">>, "weightlifting", "rx",
                  <<>>, "weighted", <<>>),
     MakeMovement(3, <<"none">>, <<"shoulders">>, <<>>, <<"push">>, "gymnastics", "rx",
                  <<"overhead">>, "bodyweight", <<>>),
     MakeMovement(4, <<"none">>, <<"lats">>, <<"core">>, <<"pull">>, "gymnastics", "advanced",
                  <<"inverted", "kipping">>, "bodyweight", <<>>),
     MakeMovement(5, <<"none">>, <<"quads">>, <<"shoulders">>, <<"squat">>, "gymnastics", "rx",
                  <<"max_effort", "prone">>, "bodyweight", <<>>),
     MakeMovement(6, <<"barbell">>, <<"core">>, <<>>, <<"hinge">>, "weightlifting", "rx",
                  <<"axial_load", "high_impact">>, "weighted", <<>>)}

InitRestrict ==
    /\ catalog = <<>>
    /\ movement \in RestrictedMovements
    /\ constraints = None
    /\ equipment \in {{}, {"barbell"}}
    /\ pc = "call"
    /\ checkResult = NoCheck
    /\ subResult = NoSub
    /\ impediments \in
          UNION {[1..n -> {MakeImpediment(c) : c \in RestrictingConstraints}] :
                    n \in 0..MaxImpediments}
    /\ mergeResult = None
    /\ NoFilterCall /\ NoTierCall /\ NoScaleCall

\* checkMovement(movement, mergeConstraints(impediments), equipment)
CheckMergedCall ==
    /\ pc = "mergeConstraints"
    /\ checkResult' = checkMovement(movement, mergeResult, equipment)
    /\ pc' = "checkMovement"
    /\ UNCHANGED <<arguments, laterState,
                   subResult, mergeResult, filterResult, tierResult, scaleResult>>

NextRestrict == MergeConstraintsCall \/ CheckMergedCall

SpecRestrict == InitRestrict /\ [][NextRestrict]_vars

----------------------------------------------------------------------------
(* An injury preset built for up to MaxRegions affected regions at one of  *)
(* the three severities, and a movement checked against it: twelve         *)
(* movements that between them meet every gate, with or without a barbell. *)

MaxRegions == 2

ImpedimentSeverity == {"mild", "moderate", "severe"}

InjuryRegions == {"shoulders", "elbows", "wrists", "knees", "spine", "neck", "quads"}

PresetMovements ==
    {MakeMovement(1, <<"none">>, <<"quads">>, <<>>, <<"squat">>, "gymnastics", "beginner",
                  <<>>, "bodyweight", <<>>),
     MakeMovement(2, <<"barbell">>, <<"quads">>, <<>>, <<"squat">>, "weightlifting", "rx",
                  <<"axial_load">>, "weighted", <<>>),
     MakeMovement(3, <<"none">>, <<"calves">>, <<>>, <<"squat">>, "gymnastics", "rx",
                  <<"high_impact">>, "bodyweight", <<>>),
     MakeMovement(4, <<"none">>, <<"shoulders">>, <<>>, <<"push">>, "gymnastics", "advanced",
                  <<"overhead", "inverted", "high_skill">>, "bodyweight", <<>>),
     MakeMovement(5, <<"none">>, <<"chest">>, <<>>, <<"push">>, "gymnastics", "beginner",
                  <<"prone">>, "bodyweight", <<>>),
     MakeMovement(6, <<"none">>, <<"lats">>, <<>>, <<"pull">>, "gymnastics", "rx",
                  <<"kipping">>, "bodyweight", <<>>),
     MakeMovement(7, <<"none">>, <<"lats">>, <<>>, <<"pull">>, "gymnastics", "advanced",
                  <<"complex">>, "bodyweight", <<>>),
     MakeMovement(8, <<"none">>, <<"lats">>, <<>>, <<"pull">>, "gymnastics", "rx",
                  <<"max_effort">>, "bodyweight", <<>>),
     MakeMovement(9, <<"none">>, <<"glutes">>, <<>>, <<"squat">>, "gymnastics", "advanced",
                  <<"high_skill">>, "bodyweight", <<>>),
     MakeMovement(10, <<"barbell">>, <<"shoulders">>, <<>>, <<"push">>, "weightlifting", "rx",
                  <<"overhead">>, "weighted", <<>>),
     MakeMovement(11, <<"none">>, <<"chest">>, <<>>, <<"push">>, "gymnastics", "rx",
                  <<"inverted">>, "bodyweight", <<>>),
     MakeMovement(12, <<"none">>, <<"triceps">>, <<>>, <<"push">>, "gymnastics", "beginner",
                  <<"overhead">>, "bodyweight", <<>>)}

InitPreset ==
    /\ catalog = <<>>
    /\ movement \in PresetMovements
    /\ constraints = None
    /\ equipment \in {{}, {"barbell"}}
    /\ pc = "call"
    /\ checkResult = NoCheck
    /\ subResult = NoSub
    /\ NoMergeCall /\ NoFilterCall /\ NoTierCall
    /\ workout = NoWorkout
    /\ scaleResult = NoScaled
    /\ tiersResult = <<>>
    /\ mapResult = <<>>
    /\ affectedRegions \in UNION {[1..n -> InjuryRegions] : n \in 0..MaxRegions}
    /\ severity \in ImpedimentSeverity
    /\ prStore = <<>>
    /\ prResult = <<>>

\* constraints = buildInjuryConstraints(affectedRegions, severity)
BuildInjuryConstraintsCall ==
    /\ pc = "call"
    /\ constraints' = Some(buildInjuryConstraints(affectedRegions, severity))
    /\ pc' = "buildInjuryConstraints"
    /\ UNCHANGED <<catalog, movement, equipment, impediments, movements, targetTier, workout,
                   laterState, checkResult, subResult, mergeResult, filterResult,
                   tierResult, scaleResult>>

\* checkMovement(movement, constraints, equipment) with the preset just built
CheckPresetCall ==
    /\ pc = "buildInjuryConstraints"
    /\ checkResult' = checkMovement(movement, constraints, equipment)
    /\ pc' = "checkMovement"
    /\ UNCHANGED <<arguments, laterState,
                   subResult, mergeResult, filterResult, tierResult, scaleResult>>

NextPreset == BuildInjuryConstraintsCall \/ CheckPresetCall

SpecPreset == InitPreset /\ [][NextPreset]_vars

----------------------------------------------------------------------------
(* PRRepository, db/pr-repository.ts, and PRTracker, tracking/pr-tracker.ts *)
(* The table personal_records is the sequence prStore, in insertion order.  *)
(* A row keeps what detection and the queries read; its generated id is    *)
(* left out.                                                               *)

\* WHERE athlete_id = ? AND reference_id = ? AND category = ?
RowsOf(store, athleteId, referenceId, category) ==
    LET matches(row) == /\ row.athleteId = athleteId
                        /\ row.referenceId = referenceId
                        /\ row.category = category
    IN  SelectSeq(store, matches)

\* ORDER BY value DESC LIMIT 1; null when no row matches
getCurrentPR(store, athleteId, referenceId, category) ==
    LET rows == RowsOf(store, athleteId, referenceId, category)
        first == CHOOSE i \in DOMAIN rows :
                    /\ \A j \in DOMAIN rows : rows[j].value <= rows[i].value
                    /\ \A j \in 1..(i - 1) : rows[j].value < rows[i].value
    IN  IF Len(rows) = 0 THEN None ELSE Some(rows[first])

\* ORDER BY value ASC LIMIT 1; null when no row matches
getCurrentTimePR(store, athleteId, referenceId, category) ==
    LET rows == RowsOf(store, athleteId, referenceId, category)
        first == CHOOSE i \in DOMAIN rows :
                    /\ \A j \in DOMAIN rows : rows[j].value >= rows[i].value
                    /\ \A j \in 1..(i - 1) : rows[j].value > rows[i].value
    IN  IF Len(rows) = 0 THEN None ELSE Some(rows[first])

\* previousValue: existing?.value
makePR(result, refType, refId, category, value, unit, existing) ==
    [athleteId |-> result.athleteId,
     referenceId |-> refId,
     referenceType |-> refType,
     category |-> category,
     value |-> value,
     unit |-> unit,
     achievedAt |-> result.performedAt,
     workoutResultId |-> result.id,
     previousValue |-> IF IsSome(existing) THEN Some(Get(existing).value) ELSE None]

\* if (!existing || value > existing.value) prs.push(makePR(...))
HigherWorkoutPR(store, result, score, category, unit) ==
    LET existing == getCurrentPR(store, result.athleteId, result.workoutId, category)
    IN  IF IsSome(score) /\ (~IsSome(existing) \/ Get(score) > Get(existing).value)
        THEN <<makePR(result, "workout", result.workoutId, category, Get(score), unit, existing)>>
        ELSE <<>>

\* rounds * 1000 + (partialReps ?? 0)
RoundsScore(result) ==
    IF IsSome(result.roundsCompleted)
    THEN Some(Get(result.roundsCompleted) * 1000
              + (IF IsSome(result.partialReps) THEN Get(result.partialReps) ELSE 0))
    ELSE None

checkWorkoutPRs(store, result) ==
    CASE result.scoreType = "time" ->
            LET existing == getCurrentTimePR(store, result.athleteId, result.workoutId,
                                             "fastest_time")
            IN  IF    IsSome(result.timeSeconds)
                   /\ (~IsSome(existing) \/ Get(result.timeSeconds) < Get(existing).value)
                THEN <<makePR(result, "workout", result.workoutId, "fastest_time",
                              Get(result.timeSeconds), "seconds", existing)>>
                ELSE <<>>
      [] result.scoreType = "rounds_and_reps" ->
            HigherWorkoutPR(store, result, RoundsScore(result), "most_rounds", "rounds_reps")
      [] result.scoreType = "load" ->
            HigherWorkoutPR(store, result, result.peakLoad, "heaviest_load", "lbs")
      [] result.scoreType = "reps" ->
            HigherWorkoutPR(store, result, result.totalReps, "max_reps", "reps")
      [] result.scoreType = "calories" ->
            HigherWorkoutPR(store, result, result.totalCalories, "max_reps", "calories")
      [] result.scoreType = "distance" ->
            HigherWorkoutPR(store, result, result.totalDistance, "max_reps", "meters")
      [] OTHER -> <<>>

\* one record per movement result that beats the stored best; the store is
\* not written while the results are walked
checkMovementPRs(store, result) ==
    LET mrs == result.movementResults
        existing(i) == getCurrentPR(store, result.athleteId, mrs[i].movementId,
                                    "heaviest_load")
        beats(i) == /\ IsSome(mrs[i].load)
                    /\ Get(mrs[i].load) > 0
                    /\ (~IsSome(existing(i)) \/ Get(mrs[i].load) > Get(existing(i)).value)
        hits == SelectSeq([i \in DOMAIN mrs |-> i], beats)
    IN  [k \in DOMAIN hits |->
            makePR(result, "movement", mrs[hits[k]].movementId, "heaviest_load",
                   Get(mrs[hits[k]].load), "lbs", existing(hits[k]))]

\* the records of one result: the workout's, then the movements'
detectAndSavePRs(store, result) ==
    checkWorkoutPRs(store, result) \o checkMovementPRs(store, result)

----------------------------------------------------------------------------
(* Results logged one after another by one athlete: seven workouts, one    *)
(* of each score type, scores up to MaxScore, and up to MaxLifts movement  *)
(* results of one lift, until the table holds MaxRecords rows.             *)

MaxScore == 2

MaxLifts == 2

MaxRecords == 3

\* the workouts of the table workouts, each with its score type
ScoredWorkouts ==
    {<<"fran", "time">>, <<"cindy", "rounds_and_reps">>, <<"squat-day", "load">>,
     <<"max-pull-ups", "reps">>, <<"row", "calories">>, <<"run", "distance">>,
     <<"stretch", "none">>}

Scores == {None} \cup {Some(n) : n \in 1..MaxScore}

ScoreOf(w, scoreType, score) == IF w[2] = scoreType THEN score ELSE None

LiftResults ==
    {[movementId |-> "back_squat", load |-> load, reps |-> Some(5), rx |-> TRUE] :
        load \in {None} \cup {Some(n) : n \in 0..MaxScore}}

\* the partial round belongs to the rounds score
PartialReps(w) == IF w[2] = "rounds_and_reps" THEN {None, Some(1)} ELSE {None}

\* loads are logged on the strength day and in the unscored session
LiftLists(w) ==
    IF w[2] \in {"load", "none"}
    THEN UNION {[1..n -> LiftResults] : n \in 0..MaxLifts}
    ELSE {<<>>}

ResultsOf(w) ==
    {[id |-> id, athleteId |-> athlete, workoutId |-> w[1], performedAt |-> "today",
      scoreType |-> w[2],
      timeSeconds |-> ScoreOf(w, "time", score),
      roundsCompleted |-> ScoreOf(w, "rounds_and_reps", score),
      partialReps |-> ScoreOf(w, "rounds_and_reps", partial),
      peakLoad |-> ScoreOf(w, "load", score),
      totalReps |-> ScoreOf(w, "reps", score),
      totalCalories |-> ScoreOf(w, "calories", score),
      totalDistance |-> ScoreOf(w, "distance", score),
      movementResults |-> lifts] :
        id \in {"r"}, athlete \in {"ann"},
        score \in Scores, partial \in PartialReps(w), lifts \in LiftLists(w)}

WorkoutResults == UNION {ResultsOf(w) : w \in ScoredWorkouts}

InitRecords ==
    /\ catalog = <<>>
    /\ movement = NoMovement
    /\ constraints = None
    /\ equipment = {}
    /\ pc = "call"
    /\ checkResult = NoCheck
    /\ subResult = NoSub
    /\ NoMergeCall /\ NoFilterCall /\ NoTierCall
    /\ workout = NoWorkout
    /\ scaleResult = NoScaled
    /\ tiersResult = <<>>
    /\ mapResult = <<>>
    /\ affectedRegions = <<>>
    /\ severity = "mild"
    /\ prStore = <<>>
    /\ prResult = <<>>

\* newPRs = [...checkWorkoutPRs(result), ...checkMovementPRs(result)], each
\* then saved with a plain INSERT, and newPRs returned
DetectAndSavePRsCall ==
    \E result \in WorkoutResults :
        LET newPRs == detectAndSavePRs(prStore, result)
        IN  /\ Len(prStore) + Len(newPRs) <= MaxRecords
            /\ prStore' = prStore \o newPRs
            /\ prResult' = newPRs
            /\ pc' = "detectAndSavePRs"
            /\ UNCHANGED <<arguments, checkResult, subResult, mergeResult, filterResult,
                           tierResult, scaleResult, tiersResult, mapResult,
                           affectedRegions, severity>>

NextRecords == DetectAndSavePRsCall

SpecRecords == InitRecords /\ [][NextRecords]_vars

----------------------------------------------------------------------------
(* Properties of mergeConstraints, checked under SpecMerge *)

Merged == pc = "mergeConstraints"

Permissions == {g[1] : g \in PermissionGates}

InputConstraints == {impediments[i].constraints : i \in DOMAIN impediments}

InputCaps == {Get(c.maxLoadPercent) : c \in {d \in InputConstraints : IsSome(d.maxLoadPercent)}}

NoRepeats(arr) == \A i, j \in DOMAIN arr : arr[i] = arr[j] => i = j

\* C13 (SpecMerge): merging no impediments gives no constraint; otherwise
\* each permission is the conjunction of the inputs' permissions, the avoid
\* lists hold exactly the union of the inputs' lists, each entry once, and
\* the cap is the least cap given, absent when none is given.
C13_MergeIsMostRestrictive ==
    Merged =>
        IF impediments = <<>> THEN mergeResult = None
        ELSE /\ IsSome(mergeResult)
             /\ LET merged == Get(mergeResult)
                IN  /\ \A p \in Permissions :
                          merged[p] <=> \A c \in InputConstraints : c[p]
                    /\ ToSet(merged.avoidRegions)
                          = UNION {ToSet(c.avoidRegions) : c \in InputConstraints}
                    /\ ToSet(merged.avoidTags)
                          = UNION {ToSet(c.avoidTags) : c \in InputConstraints}
                    /\ NoRepeats(merged.avoidRegions) /\ NoRepeats(merged.avoidTags)
                    /\ IsSome(merged.maxLoadPercent) <=> InputCaps # {}
                    /\ IsSome(merged.maxLoadPercent) =>
                          /\ Get(merged.maxLoadPercent) \in InputCaps
                          /\ \A cap \in InputCaps : Get(merged.maxLoadPercent) <= cap

\* three impediments with overlapping regions, one without a cap, merged to
\* the smaller of the two caps given
C13_Witness ==
    /\ Merged
    /\ Len(impediments) = 3
    /\ impediments[1].constraints.maxLoadPercent = None
    /\ impediments[2].constraints.maxLoadPercent = Some(70)
    /\ impediments[3].constraints.maxLoadPercent = Some(50)
    /\ impediments[1].constraints.avoidRegions = <<"shoulders">>
    /\ impediments[2].constraints.avoidRegions = <<"core", "shoulders">>
    /\ Get(mergeResult).maxLoadPercent = Some(50)
    /\ Get(mergeResult).avoidRegions = <<"shoulders", "core">>
    /\ ~Get(mergeResult).allowOverhead

\* the same permissions, the same avoid sets and the same cap
SameConstraint(a, b) ==
    LET x == a
        y == b
    IN  IF x = None \/ y = None THEN x = y
        ELSE /\ \A p \in Permissions : Get(x)[p] = Get(y)[p]
             /\ ToSet(Get(x).avoidRegions) = ToSet(Get(y).avoidRegions)
             /\ ToSet(Get(x).avoidTags) = ToSet(Get(y).avoidTags)
             /\ Get(x).maxLoadPercent = Get(y).maxLoadPercent

Reordered(f) == [i \in DOMAIN impediments |-> impediments[f[i]]]

\* the first k impediments merged into one limitation, followed by the rest
Regrouped(k) ==
    <<MakeImpediment(Get(mergeConstraints(SubSeq(impediments, 1, k))))>>
        \o SubSeq(impediments, k + 1, Len(impediments))

\* C14 (SpecMerge): the merge does not depend on the order of the
\* impediments, and merging a limitation that is itself the merge of the
\* first few together with the rest gives the merge of them all.
C14_MergeCommutativeAssociative ==
    Merged =>
        /\ \A f \in Permutations(DOMAIN impediments) :
              SameConstraint(mergeConstraints(Reordered(f)), mergeResult)
        /\ \A k \in 1..(Len(impediments) - 1) :
              SameConstraint(mergeConstraints(Regrouped(k)), mergeResult)

\* three different constraints whose caps, regions and permissions differ,
\* so that the order could matter
C14_Witness ==
    /\ Merged
    /\ Len(impediments) = 3
    /\ impediments[1].constraints.maxLoadPercent = Some(70)
    /\ impediments[2].constraints.maxLoadPercent = Some(0)
    /\ impediments[3].constraints.maxLoadPercent = None
    /\ impediments[1].constraints.avoidRegions = <<>>
    /\ impediments[2].constraints.avoidRegions = <<"core", "shoulders">>
    /\ impediments[3].constraints.avoidRegions = <<"shoulders">>
    /\ mergeConstraints(Regrouped(2)) = mergeResult
    /\ Get(mergeResult).maxLoadPercent = Some(0)

----------------------------------------------------------------------------
(* Properties of filterAllowedMovements, checked under SpecFilter *)

Filtered == pc = "filterAllowedMovements"

AllowedPositions ==
    {i \in DOMAIN movements : checkMovement(movements[i], constraints, equipment).allowed}

\* the k-th allowed position of the input, counting from 1
AllowedPosition(k) ==
    CHOOSE i \in AllowedPositions : Cardinality({j \in AllowedPositions : j <= i}) = k

\* C15 (SpecFilter): the result lists the movements at the allowed positions
\* of the input, one entry per position and in the input's order, and
\* filtering the result again returns it unchanged.
C15_FilterExactOrderedIdempotent ==
    Filtered =>
        /\ Len(filterResult) = Cardinality(AllowedPositions)
        /\ \A k \in DOMAIN filterResult : filterResult[k] = movements[AllowedPosition(k)]
        /\ filterAllowedMovements(filterResult, constraints, equipment) = filterResult

\* an allowed movement listed twice around a blocked one is kept twice
C15_Witness ==
    /\ Filtered
    /\ Len(movements) = 3
    /\ movements[1] = movements[3]
    /\ AllowedPositions = {1, 3}
    /\ filterResult = <<movements[1], movements[3]>>

----------------------------------------------------------------------------
(* Properties of findTieredMovement, checked under SpecTier *)

Tiered == pc = "findTieredMovement"

TierPosition(t) == CHOOSE i \in 0..4 : TIER_ORDER[i + 1] = t

AtOrBelowTarget(m) == TierPosition(m.difficulty) <= TierPosition(targetTier)

EquipmentAtHand(m) == ToSet(m.equipment) \ {"none"} \subseteq equipment

\* C16 (SpecTier): a movement graded at or below the target tier is returned
\* as it is, whatever the inventory holds; so a target of rx_plus never
\* substitutes.
C16_KeptAtOrBelowTarget ==
    Tiered =>
        /\ AtOrBelowTarget(movement) => tierResult = movement
        /\ targetTier = "rx_plus" => tierResult = movement

\* an intermediate barbell movement kept for an advanced target by an
\* athlete without a barbell, although the catalog has a bodyweight movement
\* sharing a muscle group
C16_Witness ==
    /\ Tiered
    /\ movement.difficulty = "intermediate"
    /\ targetTier = "advanced"
    /\ ~EquipmentAtHand(movement)
    /\ \E i \in DOMAIN catalog :
          /\ catalog[i].id # movement.id
          /\ EquipmentAtHand(catalog[i])
          /\ ToSet(catalog[i].muscleGroups) \cap ToSet(movement.muscleGroups) # {}
    /\ tierResult = movement

\* chain entries that resolve to a movement at or below the target whose
\* equipment is at hand
QualifyingChainEntries ==
    {i \in DOMAIN movement.substitutions :
        \E k \in DOMAIN catalog :
            /\ catalog[k].id = movement.substitutions[i]
            /\ AtOrBelowTarget(catalog[k])
            /\ EquipmentAtHand(catalog[k])}

\* other catalog movements sharing a muscle group, at or below the target,
\* whose equipment is at hand
QualifyingCatalogEntries ==
    {k \in DOMAIN catalog :
        /\ catalog[k].id # movement.id
        /\ ToSet(catalog[k].muscleGroups) \cap ToSet(movement.muscleGroups) # {}
        /\ AtOrBelowTarget(catalog[k])
        /\ EquipmentAtHand(catalog[k])}

\* C17 (SpecTier): the result is the original or a different movement at or
\* below the target whose equipment, none aside, is in the inventory; the
\* original comes back above the target only when no chain entry and no
\* catalog movement sharing a muscle group meets both conditions.
C17_AlwaysYieldsMovement ==
    Tiered =>
        IF tierResult = movement
        THEN ~AtOrBelowTarget(movement) =>
                 QualifyingChainEntries = {} /\ QualifyingCatalogEntries = {}
        ELSE /\ tierResult.id # movement.id
             /\ AtOrBelowTarget(tierResult)
             /\ EquipmentAtHand(tierResult)

\* the original comes back above the target: the only movement at or below
\* it that shares a muscle group needs a barbell the athlete lacks
C17_Witness ==
    /\ Tiered
    /\ ~AtOrBelowTarget(movement)
    /\ movement.substitutions # <<>>
    /\ \E k \in DOMAIN catalog :
          /\ catalog[k].id \in ToSet(movement.substitutions)
          /\ AtOrBelowTarget(catalog[k])
          /\ ~EquipmentAtHand(catalog[k])
    /\ tierResult = movement

----------------------------------------------------------------------------
(* Properties of scaleWorkoutToTier, checked under SpecScale *)

Scaled == pc = "scaleWorkoutToTier"

Given(i) == workout.movements[i]

Returned(i) == scaleResult.workout.movements[i]

\* the prescription carries its movement or names one of the library
Resolves(p) == IsSome(p.movement) \/ \E k \in DOMAIN catalog : catalog[k].id = p.movementId

Substituted(i) == Resolves(Given(i)) /\ Returned(i).movementId # Given(i).movementId

LoadFactor == [beginner |-> 45, intermediate |-> 65, advanced |-> 85, rx |-> 100,
               rx_plus |-> 110]

RepFactor == [beginner |-> 60, intermediate |-> 80, advanced |-> 100, rx |-> 100,
              rx_plus |-> 120]

\* n is the integer nearest to p / q (q > 0), the upper one of two
Nearest(n, p, q) == q * (2 * n - 1) <= 2 * p /\ 2 * p < q * (2 * n + 1)

\* C18 (SpecScale): a resolved prescription with a load gets the load times
\* the target tier's factor, rounded to the nearest integer, substituted or
\* not; one without a load gets none.
C18_LoadScaledByTierFactor ==
    Scaled =>
        \A i \in DOMAIN workout.movements :
            Resolves(Given(i)) =>
                IF IsSome(Given(i).load)
                THEN /\ IsSome(Returned(i).load)
                     /\ Nearest(Get(Returned(i).load),
                                Get(Given(i).load) * LoadFactor[targetTier], 100)
                ELSE Returned(i).load = None

\* a substituted prescription whose load of 10 is scaled to 4.5 and rounded
\* up to 5
C18_Witness ==
    /\ Scaled
    /\ targetTier = "beginner"
    /\ Len(workout.movements) >= 1
    /\ Substituted(1)
    /\ Given(1).load = Some(10)
    /\ Returned(1).load = Some(5)

\* C19 (SpecScale): a resolved prescription with a positive rep count gets
\* the count times the tier's rep factor, rounded, and at least 1; a count
\* of 0 or below comes back as given, and no count stays no count.
C19_RepsScaledAtLeastOne ==
    Scaled =>
        \A i \in DOMAIN workout.movements :
            Resolves(Given(i)) =>
                IF Given(i).reps = None THEN Returned(i).reps = None
                ELSE IF Get(Given(i).reps) <= 0 THEN Returned(i).reps = Given(i).reps
                ELSE /\ IsSome(Returned(i).reps)
                     /\ LET halves == Get(Returned(i).reps)
                            whole == halves \div 2
                            product == Get(Given(i).reps) * RepFactor[targetTier]
                        IN  /\ halves = 2 * whole
                            /\ whole >= 1
                            /\ \/ Nearest(whole, product, 200)
                               \/ whole = 1 /\ Nearest(0, product, 200)

\* half a rep, which the beginner factor takes to 0.3, comes back as one rep
C19_Witness ==
    /\ Scaled
    /\ targetTier = "beginner"
    /\ Len(workout.movements) >= 1
    /\ Resolves(Given(1))
    /\ Given(1).reps = Some(1)
    /\ Returned(1).reps = Some(2)

\* C20 (SpecScale): distance, duration, calories and notes of every
\* prescription come back as given, present or absent, for every tier and
\* whether or not the movement was substituted.
C20_PassThroughFields ==
    Scaled =>
        /\ Len(scaleResult.workout.movements) = Len(workout.movements)
        /\ \A i \in DOMAIN workout.movements :
              /\ Returned(i).distance = Given(i).distance
              /\ Returned(i).duration = Given(i).duration
              /\ Returned(i).calories = Given(i).calories
              /\ Returned(i).notes = Given(i).notes

\* a substituted prescription keeps a distance of 0 and an empty note
C20_Witness ==
    /\ Scaled
    /\ Len(workout.movements) >= 1
    /\ Substituted(1)
    /\ Given(1).distance = Some(0)
    /\ Given(1).notes = Some("")
    /\ Given(1).duration = None
    /\ Returned(1).distance = Some(0)
    /\ Returned(1).notes = Some("")
    /\ Returned(1).duration = None

Note(i) == scaleResult.scalingNotes[i]

ChangeTexts(i) == {Note(i).changes[k].text : k \in DOMAIN Note(i).changes}

\* C21 (SpecScale): the change list of a resolved prescription is the single
\* entry "kept" when the movement is unchanged and the tier's load factor is
\* 1.0; otherwise it has no "kept" entry and one entry per changed dimension,
\* so "kept" never stands beside a load or rep entry.
C21_KeptOnlyWhenNothingChanged ==
    Scaled =>
        \A i \in DOMAIN workout.movements :
            Resolves(Given(i)) =>
                IF ~Substituted(i) /\ LoadFactor[targetTier] = 100
                THEN ChangeTexts(i) = {"kept"} /\ Len(Note(i).changes) = 1
                ELSE /\ "kept" \notin ChangeTexts(i)
                     /\ "substituted" \in ChangeTexts(i) <=> Substituted(i)
                     /\ "load" \in ChangeTexts(i) =>
                           IsSome(Given(i).load) /\ LoadFactor[targetTier] # 100
                     /\ "reps" \in ChangeTexts(i) =>
                           IsSome(Given(i).reps) /\ RepFactor[targetTier] # 100

TierSuffix ==
    [beginner |-> "_beginner", intermediate |-> "_intermediate", advanced |-> "_advanced",
     rx |-> "_rx", rx_plus |-> "_rx_plus"]

TierParenthetical ==
    [beginner |-> " (Beginner)", intermediate |-> " (Intermediate)",
     advanced |-> " (Advanced)", rx |-> " (Rx)", rx_plus |-> " (Rx+)"]

\* the workout holding the i-th prescription alone, scaled
ScaledAlone(i) ==
    scaleWorkoutToTier([workout EXCEPT !.movements = <<Given(i)>>], targetTier, equipment)

\* C22 (SpecScale): the scaled workout has one prescription and one note per
\* input prescription, at the same position; its id is the input id with the
\* tier appended, its name the input name with the tier label in
\* parentheses, its tier the target, and every other field the input's. A
\* prescription and its note come out as they do when it is scaled alone.
C22_WorkoutShapeAndFrame ==
    Scaled =>
        /\ Len(scaleResult.workout.movements) = Len(workout.movements)
        /\ Len(scaleResult.scalingNotes) = Len(workout.movements)
        /\ scaleResult.tier = targetTier
        /\ scaleResult.workout.id = workout.id \o TierSuffix[targetTier]
        /\ scaleResult.workout.name = workout.name \o TierParenthetical[targetTier]
        /\ \A f \in DOMAIN workout \ {"id", "name", "movements"} :
              scaleResult.workout[f] = workout[f]
        /\ \A i \in DOMAIN workout.movements :
              LET alone == ScaledAlone(i)
              IN  /\ Returned(i) = alone.workout.movements[1]
                  /\ Note(i) = alone.scalingNotes[1]
                  /\ Note(i).originalId =
                        IF IsSome(Given(i).movement) THEN Get(Given(i).movement).id
                        ELSE Given(i).movementId

\* two prescriptions, the first carrying its movement and the second not
\* resolved, scaled to Rx+
C22_Witness ==
    /\ Scaled
    /\ targetTier = "rx_plus"
    /\ Len(workout.movements) = 2
    /\ Given(1).movementId = "sandbag-clean"
    /\ ~Resolves(Given(2))
    /\ scaleResult.workout.id = "fran_rx_plus"
    /\ scaleResult.workout.name = "Fran (Rx+)"
    /\ scaleResult.workout.timeCap = Some(12)
    /\ Len(scaleResult.scalingNotes) = 2

Unresolved == {i \in DOMAIN workout.movements : ~Resolves(Given(i))}

\* C24 (SpecScale): a prescription without a movement whose identifier the
\* catalog does not know comes back with every field as given, at any tier;
\* its note has no changes and carries the identifier as both names; the
\* workout's other prescriptions are scaled as they are without it.
C24_UnresolvedPassesThrough ==
    Scaled =>
        /\ Len(scaleResult.workout.movements) = Len(workout.movements)
        /\ \A i \in Unresolved :
              /\ Returned(i) = Given(i)
              /\ Note(i).changes = <<>>
              /\ Note(i).originalId = Given(i).movementId
              /\ Note(i).originalName = Given(i).movementId
              /\ Note(i).tieredMovementId = Given(i).movementId
              /\ Note(i).tieredMovementName = Given(i).movementId
        /\ Unresolved # {} =>
              \A j \in DOMAIN workout.movements \ Unresolved :
                  /\ Returned(j) = ScaledAlone(j).workout.movements[1]
                  /\ Note(j) = ScaledAlone(j).scalingNotes[1]
                  /\ Note(j).changes # <<>>

\* an unknown movement with a load and a rep count, ahead of a back squat
\* that the beginner tier replaces
C24_Witness ==
    /\ Scaled
    /\ targetTier = "beginner"
    /\ Len(workout.movements) = 2
    /\ Unresolved = {1}
    /\ Given(1).load = Some(10)
    /\ Given(1).reps = Some(3)
    /\ Returned(1).load = Some(10)
    /\ Returned(1).reps = Some(3)
    /\ Substituted(2)
    /\ Returned(2).load = Some(9)

\* a limitation of the athlete that the tier scaler is not told about
KneeInjury == Some([Unrestricted EXCEPT !.avoidRegions = <<"quads">>])

FirstQualifyingEntry ==
    CHOOSE i \in QualifyingChainEntries : \A j \in QualifyingChainEntries : i <= j

\* C26 (SpecTier): for a movement above the target tier, the first chain
\* entry in authored order that resolves, is at or below the target and has
\* its equipment at hand is returned, whatever the catalog holds besides;
\* no limitation of the athlete enters the choice.
C26_FirstTieredChainMatch ==
    (Tiered /\ ~AtOrBelowTarget(movement) /\ QualifyingChainEntries # {}) =>
        /\ tierResult.id = movement.substitutions[FirstQualifyingEntry]
        /\ \E k \in DOMAIN catalog : catalog[k] = tierResult

\* the chain's first entry needs a barbell the athlete lacks, the second is
\* returned although a movement outside the chain shares more muscle groups
\* and although a knee injury would block it
C26_Witness ==
    /\ Tiered
    /\ ~AtOrBelowTarget(movement)
    /\ Len(movement.substitutions) = 2
    /\ QualifyingChainEntries = {2}
    /\ tierResult.id = movement.substitutions[2]
    /\ \E k \in QualifyingCatalogEntries :
          /\ catalog[k].id \notin ToSet(movement.substitutions)
          /\ Cardinality(ToSet(catalog[k].muscleGroups) \cap ToSet(movement.muscleGroups))
               > Cardinality(ToSet(tierResult.muscleGroups) \cap ToSet(movement.muscleGroups))
    /\ ~checkMovement(tierResult, KneeInjury, equipment).allowed

\* the score the substitution fallback gives, with the target as the gate
GatedScore(k) ==
    10 * Cardinality(ToSet(catalog[k].muscleGroups) \cap ToSet(movement.muscleGroups))
    + 5 * (IF AtOrBelowTarget(catalog[k]) THEN 1 ELSE 0)
    + (IF catalog[k].modality = movement.modality THEN 1 ELSE 0)

BestQualifyingEntries ==
    {k \in QualifyingCatalogEntries :
        \A j \in QualifyingCatalogEntries : GatedScore(j) <= GatedScore(k)}

\* C27 (SpecTier): when the chain gives nothing, the result is the first
\* movement in catalog order with the highest score 10 x shared groups
\* + 5 x (at or below the target) + 1 x (same modality) among the other
\* catalog movements that share a muscle group, are at or below the target
\* and have their equipment at hand.
C27_TieredFallbackBestFirst ==
    (/\ Tiered
     /\ ~AtOrBelowTarget(movement)
     /\ QualifyingChainEntries = {}
     /\ QualifyingCatalogEntries # {}) =>
        LET best == BestQualifyingEntries
            first == CHOOSE k \in best : \A j \in best : k <= j
        IN  tierResult = catalog[first]

\* two movements with the highest score, the earlier one returned
C27_Witness ==
    /\ Tiered
    /\ ~AtOrBelowTarget(movement)
    /\ QualifyingChainEntries = {}
    /\ Cardinality(BestQualifyingEntries) = 2
    /\ \E k \in BestQualifyingEntries, j \in BestQualifyingEntries :
          k < j /\ tierResult = catalog[k] /\ tierResult # catalog[j]

----------------------------------------------------------------------------
(* Properties of detectAndSavePRs, checked under SpecRecords *)

SameKey(a, b) ==
    /\ a.athleteId = b.athleteId
    /\ a.referenceId = b.referenceId
    /\ a.category = b.category

\* values stored for the key of row i before row i
EarlierValues(i) ==
    {prStore[j].value : j \in {k \in 1..(i - 1) : SameKey(prStore[k], prStore[i])}}

\* the best of a non-empty set of values: the least time, the greatest otherwise
BestValue(values, category) ==
    IF category = "fastest_time"
    THEN CHOOSE v \in values : \A w \in values : v <= w
    ELSE CHOOSE v \in values : \A w \in values : v >= w

StrictlyBeats(value, best, category) ==
    IF category = "fastest_time" THEN value < best ELSE value > best

\* C30 (SpecRecords): the records returned by a call are the rows it stored,
\* and every stored row either is the first of its key (athlete, reference,
\* category), with no previous value, or strictly beats the best value
\* stored before it for that key and names that value as its previous value.
C30_RecordsStrictlyImprove ==
    /\ Len(prResult) <= Len(prStore)
    /\ SubSeq(prStore, Len(prStore) - Len(prResult) + 1, Len(prStore)) = prResult
    /\ \A i \in DOMAIN prStore :
          IF EarlierValues(i) = {}
          THEN prStore[i].previousValue = None
          ELSE LET best == BestValue(EarlierValues(i), prStore[i].category)
               IN  /\ StrictlyBeats(prStore[i].value, best, prStore[i].category)
                   /\ prStore[i].previousValue = Some(best)

----------------------------------------------------------------------------
(* Properties of the injury presets, checked under SpecPreset *)

\* the check of the movement under the preset of another severity
BlockedAt(sev) ==
    ~checkMovement(movement, Some(buildInjuryConstraints(affectedRegions, sev)),
                   equipment).allowed

\* C29 (SpecPreset): a movement blocked under the Mild preset is blocked
\* under the Moderate one, a movement blocked under the Moderate preset is
\* blocked under the Severe one, and the Severe preset blocks every weighted
\* movement, for the same regions and inventory.
C29_SeverityMonotone ==
    pc = "checkMovement" =>
        /\ (severity = "moderate" /\ BlockedAt("mild")) => ~checkResult.allowed
        /\ (severity = "severe" /\ BlockedAt("moderate")) => ~checkResult.allowed
        /\ (severity = "severe" /\ movement.loadType = "weighted") =>
              /\ ~checkResult.allowed
              /\ checkResult.maxLoadPercent = Some(0)
              /\ \E i \in DOMAIN checkResult.reasons :
                    checkResult.reasons[i].text = "All weighted loading restricted"

\* a barbell press with the barbell at hand and a severe shoulder injury:
\* passed by the Mild preset, blocked by the Moderate one and by the Severe
\* one, there for the overhead work, the region and the load
C29_Witness ==
    /\ pc = "checkMovement"
    /\ severity = "severe"
    /\ affectedRegions = <<"shoulders">>
    /\ movement.id = 10
    /\ equipment = {"barbell"}
    /\ ~BlockedAt("mild")
    /\ BlockedAt("moderate")
    /\ ~checkResult.allowed
    /\ Len(checkResult.reasons) = 3

----------------------------------------------------------------------------
(* Properties of merging and checking, checked under SpecRestrict *)

\* the limitations at the positions S, in their order
Selected(S) ==
    LET chosen(i) == i \in S
        positions == SelectSeq([i \in DOMAIN impediments |-> i], chosen)
    IN  [k \in DOMAIN positions |-> impediments[positions[k]]]

\* position sets whose limitations, merged, block the movement
BlockingSelections ==
    {S \in SUBSET DOMAIN impediments :
        ~checkMovement(movement, mergeConstraints(Selected(S)), equipment).allowed}

\* C28 (SpecRestrict): a movement blocked under the merge of some of the
\* limitations (of none of them too, the constraint then absent) is blocked
\* under the merge of all of them.
C28_MoreLimitationsNeverUnlock ==
    (pc = "checkMovement" /\ BlockingSelections # {}) => ~checkResult.allowed

\* three limitations: the movement passes under none and under the first
\* alone, is blocked under the first two, and is blocked under all three
C28_Witness ==
    /\ pc = "checkMovement"
    /\ Len(impediments) = 3
    /\ {} \notin BlockingSelections
    /\ {1} \notin BlockingSelections
    /\ {1, 2} \in BlockingSelections
    /\ {3} \notin BlockingSelections
    /\ impediments[2].constraints.maxLoadPercent = Some(0)
    /\ impediments[3].constraints.maxLoadPercent = Some(70)
    /\ ~checkResult.allowed

----------------------------------------------------------------------------
(* Properties of scaleWorkoutMovements, checked under SpecMap *)

Mapped == pc = "scaleWorkoutMovements"

\* C25 (SpecMap): one result per movement, in the order given, each the
\* result findSubstitution gives for that movement alone with the same
\* constraint and inventory.
C25_MapIndependent ==
    Mapped =>
        /\ Len(mapResult) = Len(movements)
        /\ \A i \in DOMAIN movements :
              /\ mapResult[i].original = movements[i]
              /\ mapResult[i] = findSubstitution(movements[i], constraints, equipment)
              /\ \A j \in DOMAIN movements :
                    movements[j] = movements[i] => mapResult[j] = mapResult[i]

\* a movement replaced from its chain, one left without a replacement, and
\* the first again with the same result
C25_Witness ==
    /\ Mapped
    /\ Len(movements) = 3
    /\ movements[1].id = 1
    /\ movements[2].id = 4
    /\ movements[3].id = 1
    /\ IsSome(mapResult[1].replacement)
    /\ Get(mapResult[1].replacement).id = 3
    /\ mapResult[2].replacement = None
    /\ mapResult[3] = mapResult[1]

----------------------------------------------------------------------------
(* Properties of generateAllScalingTiers, checked under SpecTiers *)

Generated == pc = "generateAllScalingTiers"

TiersEasiestFirst == <<"beginner", "intermediate", "advanced", "rx", "rx_plus">>

\* the i-th prescription of the k-th output
AtTier(k, i) == tiersResult[k].workout.movements[i]

\* C23 (SpecTiers): five scaled workouts come back, Beginner first and Rx+
\* last, and at every position whose prescription has a load of 0 or more
\* the scaled load never drops from one output to the next, whichever
\* movement each tier chose.
C23_TierMonotonicity ==
    Generated =>
        /\ Len(tiersResult) = 5
        /\ \A k \in 1..5 : tiersResult[k].tier = TiersEasiestFirst[k]
        /\ \A k \in 1..5 : Len(tiersResult[k].workout.movements) = Len(workout.movements)
        /\ \A i \in DOMAIN workout.movements :
              (IsSome(Given(i).load) /\ Get(Given(i).load) >= 0) =>
                  \A k \in 1..4 :
                      /\ IsSome(AtTier(k, i).load) /\ IsSome(AtTier(k + 1, i).load)
                      /\ Get(AtTier(k, i).load) <= Get(AtTier(k + 1, i).load)

\* a load of 10 on a back squat that the two lowest tiers replace by
\* different movements
C23_Witness ==
    /\ Generated
    /\ Len(workout.movements) >= 1
    /\ Given(1).movementId = "back-squat"
    /\ Given(1).load = Some(10)
    /\ AtTier(1, 1).movementId = "air-squat"
    /\ AtTier(2, 1).movementId = "goblet-squat"
    /\ AtTier(4, 1).movementId = "back-squat"
    /\ AtTier(1, 1).load = Some(5)
    /\ AtTier(5, 1).load = Some(11)

----------------------------------------------------------------------------
(* Properties of findSubstitution, checked under Spec *)

Found == pc = "findSubstitution"

OriginalCheck == checkMovement(movement, constraints, equipment)

AllowedHere(m) == checkMovement(m, constraints, equipment).allowed

\* positions of the authored chain whose identifier resolves to an allowed movement
AllowedChainPositions ==
    {i \in DOMAIN movement.substitutions :
        \E k \in DOMAIN catalog :
            catalog[k].id = movement.substitutions[i] /\ AllowedHere(catalog[k])}

SharedGroupSet(m) == ToSet(m.muscleGroups) \cap ToSet(movement.muscleGroups)

TierIndex(t) == CHOOSE i \in 0..4 : DIFFICULTY_ORDER[i + 1] = t

FallbackScore(m) ==
      10 * Cardinality(SharedGroupSet(m))
    + 5 * (IF TierIndex(m.difficulty) <= TierIndex(movement.difficulty) THEN 1 ELSE 0)
    + (IF m.modality = movement.modality THEN 1 ELSE 0)

\* catalog positions the fallback stage may choose from
FallbackPositions ==
    {k \in DOMAIN catalog :
        /\ catalog[k].id # movement.id
        /\ catalog[k].id \notin ToSet(movement.substitutions)
        /\ SharedGroupSet(catalog[k]) # {}
        /\ AllowedHere(catalog[k])}

BestFallbackPositions ==
    LET eligible == FallbackPositions
    IN  {k \in eligible :
            \A j \in eligible : FallbackScore(catalog[j]) <= FallbackScore(catalog[k])}

\* the stage that has to answer, by the arguments alone
StageOriginal == OriginalCheck.allowed

StageChain == ~OriginalCheck.allowed /\ AllowedChainPositions # {}

StageFallback ==
    ~OriginalCheck.allowed /\ AllowedChainPositions = {} /\ FallbackPositions # {}

StageNone ==
    ~OriginalCheck.allowed /\ AllowedChainPositions = {} /\ FallbackPositions = {}

\* C1: a replacement returned by findSubstitution passes checkMovement under
\* the same constraint and inventory, whichever stage produced it.
C1_ReplacementAllowed ==
    (Found /\ IsSome(subResult.replacement)) => AllowedHere(Get(subResult.replacement))

\* a replacement found by the catalog-wide fallback although the library also
\* holds a movement that shares a muscle group and is not allowed
C1_Witness ==
    /\ Found
    /\ StageFallback
    /\ IsSome(subResult.replacement)
    /\ \E k \in DOMAIN catalog :
          /\ catalog[k].id # movement.id
          /\ SharedGroupSet(catalog[k]) # {}
          /\ ~AllowedHere(catalog[k])

\* C2: when the original is allowed, findSubstitution returns it as its own
\* replacement with loadScale = (maxLoadPercent ?? 100) / 100, a cap of 0
\* giving a loadScale of 0.
C2_IdempotenceOnSuccess ==
    (Found /\ OriginalCheck.allowed) =>
        /\ IsSome(subResult.replacement)
        /\ Get(subResult.replacement).id = movement.id
        /\ subResult.loadScale =
              (IF IsSome(OriginalCheck.maxLoadPercent)
               THEN Get(OriginalCheck.maxLoadPercent)
               ELSE 100)

\* C3: when the original is not allowed and some chain entry resolves to an
\* allowed movement, the replacement is the first such entry in authored
\* order and the result is not a catalog-wide fallback.
C3_FirstChainMatch ==
    (Found /\ StageChain) =>
        LET usable == AllowedChainPositions
            first == CHOOSE i \in usable : \A j \in usable : i <= j
        IN  /\ IsSome(subResult.replacement)
            /\ Get(subResult.replacement).id = movement.substitutions[first]
            /\ ~Includes(subResult.replacementWarnings, FallbackWarning)

\* the second chain entry is returned, the first being unusable, although a
\* movement outside the chain is allowed and shares both muscle groups
C3_Witness ==
    /\ Found
    /\ StageChain
    /\ Len(movement.substitutions) = 2
    /\ 1 \notin AllowedChainPositions
    /\ Get(subResult.replacement).id = movement.substitutions[2]
    /\ \E k \in DOMAIN catalog :
          /\ catalog[k].id # movement.id
          /\ catalog[k].id \notin ToSet(movement.substitutions)
          /\ AllowedHere(catalog[k])
          /\ FallbackScore(catalog[k]) > FallbackScore(Get(subResult.replacement))

\* C4: when neither the original nor a chain entry is allowed, the replacement
\* is the first movement in catalog order among those of maximum score that
\* are not the original, not in the chain, share a muscle group and are allowed.
C4_FallbackBestFirst ==
    (Found /\ StageFallback) =>
        LET top == BestFallbackPositions
            best == CHOOSE k \in top : \A j \in top : k <= j
        IN  /\ IsSome(subResult.replacement)
            /\ subResult.replacement = Some(catalog[best])

\* two candidates tie on the maximum score and the earlier one is returned
C4_Witness ==
    /\ Found
    /\ StageFallback
    /\ Cardinality(BestFallbackPositions) >= 2
    /\ \E k \in BestFallbackPositions :
          /\ subResult.replacement = Some(catalog[k])
          /\ \A j \in BestFallbackPositions : k <= j

\* C5: the replacement warnings contain the muscle-group-fallback warning
\* exactly when the replacement came from the catalog-wide fallback stage.
C5_FallbackWarningIffFallback ==
    Found => (Includes(subResult.replacementWarnings, FallbackWarning) <=> StageFallback)

\* a fallback replacement whose own warnings precede the fallback warning
C5_Witness ==
    /\ Found
    /\ StageFallback
    /\ Len(subResult.replacementWarnings) >= 2
    /\ subResult.replacementWarnings[Len(subResult.replacementWarnings)] = FallbackWarning

====
